---------------------------- MODULE Spec2Model ----------------------------
(***************************************************************************)
(* clockwork-vm: the register machine of src/runtime.rs (Runtime built by  *)
(* RuntimeBuilder), its instruction codec (src/instruction.rs), register   *)
(* file (src/registers.rs) and memory (src/memory.rs).                     *)
(*                                                                         *)
(* A Word is Rust's i64.  It is kept at its full width as its eight        *)
(* two's-complement bytes, least significant byte first, so that the       *)
(* 64-bit instruction layout, the casts and the wrap-around are the        *)
(* code's.                                                                 *)
(***************************************************************************)
EXTENDS Integers, Sequences, FiniteSets, TLC

(***************************************************************************)
(* Bounds of the model.                                                    *)
(***************************************************************************)
\* number of Words of the memory handed to with_memory
MemWords == 4
\* number of program words handed to with_program
ProgLen == 2
\* number of instructions performed over all calls of run
MaxSteps == 4

(***************************************************************************)
(* i64 as eight bytes.                                                     *)
(***************************************************************************)
ByteIdx == 1..8

\* the eight bytes b[1], ..., b[8] as a Word (a tuple, least significant first)
Bytes8(b) == <<b[1], b[2], b[3], b[4], b[5], b[6], b[7], b[8]>>

\* the Word of a small natural number (n < 2^31)
W(n) == <<n % 256, (n \div 256) % 256, (n \div 65536) % 256, (n \div 16777216) % 256, 0, 0, 0, 0>>

Zero64 == W(0)

One64 == W(1)

\* i64::MIN and i64::MAX
MinWord == <<0, 0, 0, 0, 0, 0, 0, 128>>

MaxWord == <<255, 255, 255, 255, 255, 255, 255, 127>>

IsNeg(w) == w[8] >= 128

\* bit i of w; an arithmetic shift reads the sign bit above bit 63
Bit(w, i) == IF i >= 64 THEN w[8] \div 128 ELSE (w[(i \div 8) + 1] \div (2 ^ (i % 8))) % 2

\* the Word whose bit i is b[i], b a function on 0..63
FromBits(b) ==
  Bytes8([j \in ByteIdx |->
     LET o == 8 * (j - 1)
     IN  b[o] + 2 * b[o + 1] + 4 * b[o + 2] + 8 * b[o + 3]
         + 16 * b[o + 4] + 32 * b[o + 5] + 64 * b[o + 6] + 128 * b[o + 7]])

\* byte j of w, the bytes above the eighth repeating the sign
ByteExt(w, j) == IF j <= 8 THEN w[j] ELSE IF w[8] >= 128 THEN 255 ELSE 0

\* byte j of w >> k
ShrByte(w, k, j) ==
  ((ByteExt(w, j + (k \div 8)) + 256 * ByteExt(w, j + (k \div 8) + 1)) \div (2 ^ (k % 8))) % 256

\* w >> k on i64 (arithmetic)
Shr(w, k) ==
  <<ShrByte(w, k, 1), ShrByte(w, k, 2), ShrByte(w, k, 3), ShrByte(w, k, 4),
    ShrByte(w, k, 5), ShrByte(w, k, 6), ShrByte(w, k, 7), ShrByte(w, k, 8)>>

\* x & y on bytes
AndByte(x, y) ==
  (x % 2) * (y % 2)
  + 2 * ((x \div 2) % 2) * ((y \div 2) % 2)
  + 4 * ((x \div 4) % 2) * ((y \div 4) % 2)
  + 8 * ((x \div 8) % 2) * ((y \div 8) % 2)
  + 16 * ((x \div 16) % 2) * ((y \div 16) % 2)
  + 32 * ((x \div 32) % 2) * ((y \div 32) % 2)
  + 64 * ((x \div 64) % 2) * ((y \div 64) % 2)
  + 128 * ((x \div 128) % 2) * ((y \div 128) % 2)

\* a & b
And64(a, b) ==
  <<AndByte(a[1], b[1]), AndByte(a[2], b[2]), AndByte(a[3], b[3]), AndByte(a[4], b[4]),
    AndByte(a[5], b[5]), AndByte(a[6], b[6]), AndByte(a[7], b[7]), AndByte(a[8], b[8])>>

\* w as u8
AsU8(w) == w[1]

\* (w as i16) as i64
AsI16(w) ==
  LET f == IF w[2] >= 128 THEN 255 ELSE 0
  IN  <<w[1], w[2], f, f, f, f, f, f>>

Not64(w) ==
  <<255 - w[1], 255 - w[2], 255 - w[3], 255 - w[4], 255 - w[5], 255 - w[6], 255 - w[7],
    255 - w[8]>>

\* a + b + cin modulo 2^64, byte by byte with the carry rippling upward
AddC(a, b, cin) ==
  LET s1 == a[1] + b[1] + cin
      s2 == a[2] + b[2] + (s1 \div 256)
      s3 == a[3] + b[3] + (s2 \div 256)
      s4 == a[4] + b[4] + (s3 \div 256)
      s5 == a[5] + b[5] + (s4 \div 256)
      s6 == a[6] + b[6] + (s5 \div 256)
      s7 == a[7] + b[7] + (s6 \div 256)
      s8 == a[8] + b[8] + (s7 \div 256)
  IN  <<s1 % 256, s2 % 256, s3 % 256, s4 % 256, s5 % 256, s6 % 256, s7 % 256, s8 % 256>>

\* i64::wrapping_add, wrapping_sub, wrapping_neg
WrapAdd(a, b) == AddC(a, b, 0)

WrapSub(a, b) == AddC(a, Not64(b), 1)

WrapNeg(a) == AddC(Zero64, Not64(a), 1)

AddOverflows(a, b) == IsNeg(a) = IsNeg(b) /\ IsNeg(WrapAdd(a, b)) # IsNeg(a)

SubOverflows(a, b) == IsNeg(a) # IsNeg(b) /\ IsNeg(WrapSub(a, b)) # IsNeg(a)

\* a < b as unsigned 64-bit numbers
ULt(a, b) == \E j \in ByteIdx : a[j] < b[j] /\ \A k \in ByteIdx : k > j => a[k] = b[k]

\* a < b on i64
Lt64(a, b) == IF IsNeg(a) # IsNeg(b) THEN IsNeg(a) ELSE ULt(a, b)

\* |a| as an unsigned 64-bit number (|i64::MIN| = 2^63)
Abs64(a) == IF IsNeg(a) THEN WrapNeg(a) ELSE a

RECURSIVE ColSum(_, _, _, _)
\* sum of a[i] * b[k + 2 - i] over the byte pairs of column k (0-based), i from 1 to n
ColSum(a, b, k, n) ==
  IF n = 0 THEN 0
  ELSE ColSum(a, b, k, n - 1)
       + (IF k + 2 - n \in ByteIdx THEN a[n] * b[k + 2 - n] ELSE 0)

RECURSIVE MulCarry(_, _, _)
\* the carry into column k of the 128-bit product of a and b taken as unsigned
MulCarry(a, b, k) ==
  IF k = 0 THEN 0 ELSE (ColSum(a, b, k - 1, 8) + MulCarry(a, b, k - 1)) \div 256

\* byte k (0-based, 0..15) of the unsigned 128-bit product
MulByte(a, b, k) == (ColSum(a, b, k, 8) + MulCarry(a, b, k)) % 256

\* i64::wrapping_mul
WrapMul(a, b) == Bytes8([j \in ByteIdx |-> MulByte(a, b, j - 1)])

\* the exact product a * b lies outside i64
MulOverflows(a, b) ==
  LET x == Abs64(a)
      y == Abs64(b)
      lo == Bytes8([j \in ByteIdx |-> MulByte(x, y, j - 1)])
      hiZero == \A k \in 8..15 : MulByte(x, y, k) = 0
  IN  \/ ~hiZero
      \/ IF IsNeg(a) = IsNeg(b) THEN lo[8] >= 128
         ELSE lo[8] >= 128 /\ lo # MinWord

RECURSIVE UDivRem(_, _, _, _)
\* <<quotient, remainder>> of the unsigned n divided by the unsigned d # 0:
\* restoring division over the bits i, i - 1, ..., 0 of n, qr being the quotient
\* and remainder of the bits above i
UDivRem(n, d, i, qr) ==
  IF i < 0 THEN qr
  ELSE LET r2 == AddC(qr[2], qr[2], Bit(n, i))
           q2 == AddC(qr[1], qr[1], 0)
       IN  IF ULt(r2, d)
           THEN UDivRem(n, d, i - 1, <<q2, r2>>)
           ELSE UDivRem(n, d, i - 1, <<AddC(q2, Zero64, 1), WrapSub(r2, d)>>)

\* a / b and a % b on i64 for b # 0: truncation toward zero, the remainder
\* has the sign of the dividend
Quot64(a, b) ==
  LET q == UDivRem(Abs64(a), Abs64(b), 63, <<Zero64, Zero64>>)[1]
  IN  IF IsNeg(a) # IsNeg(b) THEN WrapNeg(q) ELSE q

Rem64(a, b) ==
  LET r == UDivRem(Abs64(a), Abs64(b), 63, <<Zero64, Zero64>>)[2]
  IN  IF IsNeg(a) THEN WrapNeg(r) ELSE r

\* i64::MIN / -1 does not fit: `/` and `%` panic on it in every build
DivOverflows(a, b) == a = MinWord /\ b = WrapNeg(One64)

\* the value of a Word known to be a natural number below 2^24
ToNat(w) == w[1] + 256 * w[2] + 65536 * w[3]

(***************************************************************************)
(* src/instruction.rs: the codec.                                          *)
(***************************************************************************)
OPCODE_OFFSET == 10

OPCODE_MASK == 1023

\* 46 one bits
LOAD_RANDS_MASK == <<255, 255, 255, 255, 255, 63, 0, 0>>

LOAD_DEST_OFFSET == 46

COPY_RAND2_OFFSET == 27

ADD_RAND2_OFFSET == 18

ADD_DEST_OFFSET == 36

SUB_RAND2_OFFSET == 18

SUB_DEST_OFFSET == 36

MULT_RAND2_OFFSET == 18

MULT_DEST_OFFSET == 36

DIV_RAND2_OFFSET == 13

DIV_QUOT_OFFSET == 26

DIV_REM_OFFSET == 39

CMP_RAND2_OFFSET == 27

LOAD_MEM_DEST_OFFSET == 27

STORE_MEM_DEST_OFFSET == 27

\* parse_load that sign-extends the 46-bit value field
parse_load_sign_extends(operands) ==
  [op |-> "Load",
   value |-> IF Bit(operands, LOAD_DEST_OFFSET - 1) = 1
             THEN Not64(And64(Not64(operands), LOAD_RANDS_MASK))
             ELSE And64(operands, LOAD_RANDS_MASK),
   dest_reg |-> AsU8(Shr(operands, LOAD_DEST_OFFSET))]

parse_load(operands) ==
  [op |-> "Load", value |-> And64(operands, LOAD_RANDS_MASK),
   dest_reg |-> AsU8(Shr(operands, LOAD_DEST_OFFSET))]

parse_copy(operands) ==
  [op |-> "Copy", src |-> AsU8(operands), dest |-> AsU8(Shr(operands, COPY_RAND2_OFFSET))]

parse_add(operands) ==
  [op |-> "Add", src1 |-> AsU8(operands), src2 |-> AsU8(Shr(operands, ADD_RAND2_OFFSET)),
   dest |-> AsU8(Shr(operands, ADD_DEST_OFFSET))]

parse_sub(operands) ==
  [op |-> "Sub", src1 |-> AsU8(operands), src2 |-> AsU8(Shr(operands, SUB_RAND2_OFFSET)),
   dest |-> AsU8(Shr(operands, SUB_DEST_OFFSET))]

parse_mult(operands) ==
  [op |-> "Mult", src1 |-> AsU8(operands), src2 |-> AsU8(Shr(operands, MULT_RAND2_OFFSET)),
   dest |-> AsU8(Shr(operands, MULT_DEST_OFFSET))]

parse_div(operands) ==
  [op |-> "Div", src1 |-> AsU8(operands), src2 |-> AsU8(Shr(operands, DIV_RAND2_OFFSET)),
   quot_dest |-> AsU8(Shr(operands, DIV_QUOT_OFFSET)),
   rem_dest |-> AsU8(Shr(operands, DIV_REM_OFFSET))]

parse_cmp(operands) ==
  [op |-> "Cmp", src1 |-> AsU8(operands), src2 |-> AsU8(Shr(operands, CMP_RAND2_OFFSET))]

parse_jmp(operands) == [op |-> "Jmp", src |-> AsU8(operands)]

parse_jz(operands) == [op |-> "Jz", src |-> AsU8(operands)]

parse_jnz(operands) == [op |-> "Jnz", src |-> AsU8(operands)]

parse_jgt(operands) == [op |-> "Jgt", src |-> AsU8(operands)]

parse_jlt(operands) == [op |-> "Jlt", src |-> AsU8(operands)]

parse_inc(operands) == [op |-> "Inc", dest |-> AsU8(operands)]

parse_dec(operands) == [op |-> "Dec", dest |-> AsU8(operands)]

parse_load_mem(operands) ==
  [op |-> "LoadMem", src_addr |-> AsI16(operands),
   dest_reg |-> AsU8(Shr(operands, LOAD_MEM_DEST_OFFSET))]

parse_store_mem(operands) ==
  [op |-> "StoreMem", src_reg |-> AsU8(operands),
   dest_addr |-> Shr(operands, STORE_MEM_DEST_OFFSET)]

\* the opcode taken from the whole word, without the mask
OpcodeOf_unmasked(instruction) == ToNat(instruction)

\* instruction & OPCODE_MASK
OpcodeOf(instruction) == ToNat(And64(instruction, W(OPCODE_MASK)))

\* instruction >> OPCODE_OFFSET
OperandsOf(instruction) == Shr(instruction, OPCODE_OFFSET)

\* the match on the opcode in from(instruction)
DecodeOp(opcode, operands) ==
  CASE opcode = 0 -> [op |-> "Halt"]
    [] opcode = 1 -> parse_load(operands)
    [] opcode = 2 -> parse_add(operands)
    [] opcode = 3 -> parse_sub(operands)
    [] opcode = 4 -> parse_mult(operands)
    [] opcode = 5 -> parse_cmp(operands)
    [] opcode = 6 -> parse_jmp(operands)
    [] opcode = 7 -> parse_jz(operands)
    [] opcode = 8 -> parse_jnz(operands)
    [] opcode = 9 -> parse_jgt(operands)
    [] opcode = 10 -> parse_jlt(operands)
    [] opcode = 11 -> parse_div(operands)
    [] opcode = 12 -> parse_copy(operands)
    [] opcode = 13 -> parse_inc(operands)
    [] opcode = 14 -> parse_dec(operands)
    [] opcode = 15 -> parse_load_mem(operands)
    [] opcode = 16 -> parse_store_mem(operands)
    [] OTHER -> [op |-> "Illegal"]

\* impl From<Word> for Instruction
Decode(instruction) == DecodeOp(OpcodeOf(instruction), OperandsOf(instruction))

(***************************************************************************)
(* Results: Ok(val), Err(err), and a panic that unwinds out of run.        *)
(***************************************************************************)
NoError == [kind |-> "None"]

Ok(v) == [tag |-> "Ok", val |-> v, err |-> NoError]

Err(e) == [tag |-> "Err", val |-> Zero64, err |-> e]

Panic(e) == [tag |-> "Panic", val |-> Zero64, err |-> e]

IsOk(r) == r.tag = "Ok"

(***************************************************************************)
(* src/registers.rs                                                        *)
(***************************************************************************)
DefaultRegisters ==
  [data0 |-> Zero64, data1 |-> Zero64, data2 |-> Zero64, data3 |-> Zero64,
   instr_pointer |-> Zero64]

InvalidRegister(regs, index) ==
  [kind |-> "InvalidRegister", number |-> index, instr_pointer |-> regs.instr_pointer]

\* Registers::read giving for index 4 the address of the instruction being
\* executed, one less than instr_pointer
RegRead_ip_of_instruction(regs, index) ==
  CASE index = 0 -> Ok(regs.data0)
    [] index = 1 -> Ok(regs.data1)
    [] index = 2 -> Ok(regs.data2)
    [] index = 3 -> Ok(regs.data3)
    [] index = 4 -> Ok(WrapSub(regs.instr_pointer, One64))
    [] OTHER -> Err(InvalidRegister(regs, index))

\* Registers::read
RegRead(regs, index) ==
  CASE index = 0 -> Ok(regs.data0)
    [] index = 1 -> Ok(regs.data1)
    [] index = 2 -> Ok(regs.data2)
    [] index = 3 -> Ok(regs.data3)
    [] index = 4 -> Ok(regs.instr_pointer)
    [] OTHER -> Err(InvalidRegister(regs, index))

\* Registers::write: the result, and the register file afterwards
RegWriteRes(regs, index) ==
  IF index \in 0..3 THEN Ok(Zero64) ELSE Err(InvalidRegister(regs, index))

\* Registers::write with an arm for index 4 that stores into instr_pointer
RegWrite_with_ip(regs, index, data) ==
  CASE index = 0 -> [regs EXCEPT !.data0 = data]
    [] index = 1 -> [regs EXCEPT !.data1 = data]
    [] index = 2 -> [regs EXCEPT !.data2 = data]
    [] index = 3 -> [regs EXCEPT !.data3 = data]
    [] index = 4 -> [regs EXCEPT !.instr_pointer = data]
    [] OTHER -> regs

RegWrite(regs, index, data) ==
  CASE index = 0 -> [regs EXCEPT !.data0 = data]
    [] index = 1 -> [regs EXCEPT !.data1 = data]
    [] index = 2 -> [regs EXCEPT !.data2 = data]
    [] index = 3 -> [regs EXCEPT !.data3 = data]
    [] OTHER -> regs

(***************************************************************************)
(* src/memory.rs: the buffer is a sequence of Words, address a is cell a+1 *)
(***************************************************************************)
\* Memory::new_with_size(MemWords * 8)
NewMemory == [a \in 1..MemWords |-> Zero64]

InvalidAddress(buffer, address) ==
  [kind |-> "InvalidAddress", requested_address |-> address, upper_bound |-> Len(buffer)]

\* the bounds test of Memory::read and Memory::write
AddressValid(buffer, address) ==
  ~(Lt64(address, Zero64) \/ ~ULt(address, W(Len(buffer))))

\* Memory::read
MemRead(buffer, address) ==
  IF AddressValid(buffer, address) THEN Ok(buffer[ToNat(address) + 1])
  ELSE Err(InvalidAddress(buffer, address))

\* Memory::write: the result, and the buffer afterwards
\* Memory::write that ignores an address out of range and returns Ok
MemWriteRes_silent(buffer, address) == Ok(Zero64)

MemWriteRes(buffer, address) ==
  IF AddressValid(buffer, address) THEN Ok(Zero64) ELSE Err(InvalidAddress(buffer, address))

MemWrite(buffer, address, data) ==
  IF AddressValid(buffer, address) THEN [buffer EXCEPT ![ToNat(address) + 1] = data]
  ELSE buffer

\* Result::unwrap and Result::expect: an Err becomes a panic
Unwrap(r) == IF IsOk(r) THEN r ELSE Panic(r.err)

\* util::pair_result: Ok of the pair of values, or the first error
pair_result(res1, res2) ==
  IF ~IsOk(res1) THEN Err(res1.err)
  ELSE IF ~IsOk(res2) THEN Err(res2.err)
  ELSE [tag |-> "Ok", val |-> <<res1.val, res2.val>>, err |-> NoError]

(***************************************************************************)
(* src/runtime.rs: the engine.                                             *)
(***************************************************************************)
VARIABLES
  registers,        \* Runtime.registers
  flag_zero,        \* Runtime.flag_zero
  flag_carry,       \* Runtime.flag_carry
  memory,           \* Runtime.memory (the buffer)
  running,          \* Runtime.running
  pc,               \* where the caller of run is: "ready", "loop", "returned", "panicked"
  ret,              \* what the last call of run handed back to its caller
  last,             \* the last call of perform_next_instr: what it fetched and did
  steps,            \* number of calls of perform_next_instr so far
  compared,         \* the operands of the last successful Cmp, and the steps since
  stored,           \* by memory cell, the value the last successful StoreMem put there
  calls,            \* the calls made on the RuntimeBuilder, in order
  peer,             \* a second Runtime, with registers and memory of its own
  vm,               \* a VM of src/vm.rs given the same program
  program,          \* the image given to with_program
  overflow_checks   \* build profile: TRUE when `+ - *` panic on overflow (debug)

vars == <<registers, flag_zero, flag_carry, memory, running, pc, ret, last, steps,
          compared, stored, calls, peer, vm, program, overflow_checks>>

\* the fields of Runtime the handlers work on
Engine == [registers |-> registers, flag_zero |-> flag_zero, flag_carry |-> flag_carry,
           memory |-> memory]

ArithmeticOverflow == [kind |-> "ArithmeticOverflow"]

\* v1 + v2, v1 - v2, v1 * v2 on i64: wraps, or panics when the build checks overflow
CheckedArith(wrapped, overflows) ==
  IF overflows /\ overflow_checks THEN Panic(ArithmeticOverflow) ELSE Ok(wrapped)

\* a register write that takes index 4 for the instruction pointer
WriteReg_with_ip(s, index, data) ==
  IF index = 4
  THEN [s |-> [s EXCEPT !.registers.instr_pointer = data], res |-> Ok(Zero64)]
  ELSE [s |-> [s EXCEPT !.registers = RegWrite(@, index, data)],
        res |-> RegWriteRes(s.registers, index)]

\* self.registers.write(index, data) as the last call of a handler
WriteReg(s, index, data) ==
  [s |-> [s EXCEPT !.registers = RegWrite(@, index, data)],
   res |-> RegWriteRes(s.registers, index)]

\* a handler that changes nothing and returns res
Unchanged(s, res) == [s |-> s, res |-> res]

handle_illegal_opcode(s) ==
  LET r == Unwrap(MemRead(s.memory, s.registers.instr_pointer))
  IN  IF ~IsOk(r) THEN Unchanged(s, r)
      ELSE Unchanged(s, Err([kind |-> "IllegalOpcode", instruction |-> r.val,
                             instr_pointer |-> s.registers.instr_pointer]))

perform_load(s, value, dest_reg) == WriteReg(s, dest_reg, value)

perform_copy(s, src, dest) ==
  LET r == RegRead(s.registers, src)
  IN  IF ~IsOk(r) THEN Unchanged(s, r) ELSE WriteReg(s, dest, r.val)

\* perform_add that also sets the zero flag from its sum
perform_add_sets_zero(s, src1, src2, dest) ==
  LET pr == pair_result(RegRead(s.registers, src1), RegRead(s.registers, src2))
      v == CheckedArith(WrapAdd(pr.val[1], pr.val[2]), AddOverflows(pr.val[1], pr.val[2]))
      w == WriteReg(s, dest, v.val)
  IN  IF ~IsOk(pr) THEN Unchanged(s, pr)
      ELSE IF ~IsOk(v) THEN Unchanged(s, v)
      ELSE [s |-> [w.s EXCEPT !.flag_zero = (v.val = Zero64)], res |-> w.res]

perform_add(s, src1, src2, dest) ==
  LET pr == pair_result(RegRead(s.registers, src1), RegRead(s.registers, src2))
      v == CheckedArith(WrapAdd(pr.val[1], pr.val[2]), AddOverflows(pr.val[1], pr.val[2]))
  IN  IF ~IsOk(pr) THEN Unchanged(s, pr)
      ELSE IF ~IsOk(v) THEN Unchanged(s, v)
      ELSE WriteReg(s, dest, v.val)

\* perform_sub with its operands the other way round
perform_sub_swapped(s, src1, src2, dest) ==
  LET pr == pair_result(RegRead(s.registers, src1), RegRead(s.registers, src2))
      v == CheckedArith(WrapSub(pr.val[2], pr.val[1]), SubOverflows(pr.val[2], pr.val[1]))
  IN  IF ~IsOk(pr) THEN Unchanged(s, pr)
      ELSE IF ~IsOk(v) THEN Unchanged(s, v)
      ELSE WriteReg(s, dest, v.val)

perform_sub(s, src1, src2, dest) ==
  LET pr == pair_result(RegRead(s.registers, src1), RegRead(s.registers, src2))
      v == CheckedArith(WrapSub(pr.val[1], pr.val[2]), SubOverflows(pr.val[1], pr.val[2]))
  IN  IF ~IsOk(pr) THEN Unchanged(s, pr)
      ELSE IF ~IsOk(v) THEN Unchanged(s, v)
      ELSE WriteReg(s, dest, v.val)

perform_mult(s, src1, src2, dest) ==
  LET pr == pair_result(RegRead(s.registers, src1), RegRead(s.registers, src2))
      v == CheckedArith(WrapMul(pr.val[1], pr.val[2]), MulOverflows(pr.val[1], pr.val[2]))
  IN  IF ~IsOk(pr) THEN Unchanged(s, pr)
      ELSE IF ~IsOk(v) THEN Unchanged(s, v)
      ELSE WriteReg(s, dest, v.val)

\* perform_div with the zero test on the dividend instead of the divisor: a
\* zero divisor then reaches the division, which panics
perform_div_tests_dividend(s, src1, src2, quot_dest, rem_dest) ==
  LET pr == pair_result(RegRead(s.registers, src1), RegRead(s.registers, src2))
      v1 == pr.val[1]
      v2 == pr.val[2]
      wq == WriteReg(s, quot_dest, Quot64(v1, v2))
  IN  IF ~IsOk(pr) THEN Unchanged(s, pr)
      ELSE IF v1 = Zero64
      THEN Unchanged(s, Err([kind |-> "DivisionByZero",
                             instr_pointer |-> s.registers.instr_pointer]))
      ELSE IF v2 = Zero64 THEN Unchanged(s, Panic([kind |-> "DivideByZeroPanic"]))
      ELSE IF DivOverflows(v1, v2) THEN Unchanged(s, Panic(ArithmeticOverflow))
      ELSE IF ~IsOk(wq.res) THEN wq
      ELSE WriteReg(wq.s, rem_dest, Rem64(v1, v2))

\* perform_div reading its sources again for the remainder, after it has
\* written the quotient
perform_div_reads_again(s, src1, src2, quot_dest, rem_dest) ==
  LET pr == pair_result(RegRead(s.registers, src1), RegRead(s.registers, src2))
      v1 == pr.val[1]
      v2 == pr.val[2]
      wq == WriteReg(s, quot_dest, Quot64(v1, v2))
      again == pair_result(RegRead(wq.s.registers, src1), RegRead(wq.s.registers, src2))
  IN  IF ~IsOk(pr) THEN Unchanged(s, pr)
      ELSE IF v2 = Zero64
      THEN Unchanged(s, Err([kind |-> "DivisionByZero",
                             instr_pointer |-> s.registers.instr_pointer]))
      ELSE IF DivOverflows(v1, v2) THEN Unchanged(s, Panic(ArithmeticOverflow))
      ELSE IF ~IsOk(wq.res) THEN wq
      ELSE WriteReg(wq.s, rem_dest, Rem64(again.val[1], again.val[2]))

perform_div(s, src1, src2, quot_dest, rem_dest) ==
  LET pr == pair_result(RegRead(s.registers, src1), RegRead(s.registers, src2))
      v1 == pr.val[1]
      v2 == pr.val[2]
      wq == WriteReg(s, quot_dest, Quot64(v1, v2))
  IN  IF ~IsOk(pr) THEN Unchanged(s, pr)
      ELSE IF v2 = Zero64
      THEN Unchanged(s, Err([kind |-> "DivisionByZero",
                             instr_pointer |-> s.registers.instr_pointer]))
      ELSE IF DivOverflows(v1, v2) THEN Unchanged(s, Panic(ArithmeticOverflow))
      ELSE IF ~IsOk(wq.res) THEN wq
      ELSE WriteReg(wq.s, rem_dest, Rem64(v1, v2))

\* perform_cmp comparing the operands as unsigned numbers
perform_cmp_unsigned(s, src1, src2) ==
  LET pr == pair_result(RegRead(s.registers, src1), RegRead(s.registers, src2))
  IN  IF ~IsOk(pr) THEN Unchanged(s, pr)
      ELSE [s |-> [s EXCEPT !.flag_zero = (pr.val[1] = pr.val[2]),
                            !.flag_carry = ULt(pr.val[1], pr.val[2])],
            res |-> Ok(Zero64)]

\* perform_cmp done as a subtraction that keeps its difference in src1
perform_cmp_subtracts(s, src1, src2) ==
  LET pr == pair_result(RegRead(s.registers, src1), RegRead(s.registers, src2))
  IN  IF ~IsOk(pr) THEN Unchanged(s, pr)
      ELSE [s |-> [s EXCEPT !.flag_zero = (pr.val[1] = pr.val[2]),
                            !.flag_carry = Lt64(pr.val[1], pr.val[2]),
                            !.registers = RegWrite(@, src1, WrapSub(pr.val[1], pr.val[2]))],
            res |-> Ok(Zero64)]

perform_cmp(s, src1, src2) ==
  LET pr == pair_result(RegRead(s.registers, src1), RegRead(s.registers, src2))
  IN  IF ~IsOk(pr) THEN Unchanged(s, pr)
      ELSE [s |-> [s EXCEPT !.flag_zero = (pr.val[1] = pr.val[2]),
                            !.flag_carry = Lt64(pr.val[1], pr.val[2])],
            res |-> Ok(Zero64)]

perform_jmp(s, src) ==
  LET r == RegRead(s.registers, src)
  IN  IF ~IsOk(r) THEN Unchanged(s, r)
      ELSE [s |-> [s EXCEPT !.registers.instr_pointer = r.val], res |-> Ok(Zero64)]

\* perform_jz without its test of the zero flag
perform_jz_always(s, src) == perform_jmp(s, src)

perform_jz(s, src) == IF s.flag_zero THEN perform_jmp(s, src) ELSE Unchanged(s, Ok(Zero64))

\* perform_jnz with its test the wrong way round
perform_jnz_on_zero(s, src) == perform_jz(s, src)

perform_jnz(s, src) == IF ~s.flag_zero THEN perform_jmp(s, src) ELSE Unchanged(s, Ok(Zero64))

\* perform_jgt jumping on strictly greater only
perform_jgt_strict(s, src) ==
  IF ~s.flag_carry /\ ~s.flag_zero THEN perform_jmp(s, src) ELSE Unchanged(s, Ok(Zero64))

perform_jgt(s, src) == IF ~s.flag_carry THEN perform_jmp(s, src) ELSE Unchanged(s, Ok(Zero64))

\* perform_jlt reading its src before it tests the flag
perform_jlt_reads_first(s, src) ==
  LET r == RegRead(s.registers, src)
  IN  IF ~IsOk(r) THEN Unchanged(s, r)
      ELSE IF s.flag_carry THEN perform_jmp(s, src) ELSE Unchanged(s, Ok(Zero64))

perform_jlt(s, src) == IF s.flag_carry THEN perform_jmp(s, src) ELSE Unchanged(s, Ok(Zero64))

perform_inc(s, dest) ==
  LET r == RegRead(s.registers, dest)
      v == CheckedArith(WrapAdd(r.val, One64), AddOverflows(r.val, One64))
  IN  IF ~IsOk(r) THEN Unchanged(s, r)
      ELSE IF ~IsOk(v) THEN Unchanged(s, v)
      ELSE WriteReg(s, dest, v.val)

perform_dec(s, dest) ==
  LET r == RegRead(s.registers, dest)
      v == CheckedArith(WrapSub(r.val, One64), SubOverflows(r.val, One64))
  IN  IF ~IsOk(r) THEN Unchanged(s, r)
      ELSE IF ~IsOk(v) THEN Unchanged(s, v)
      ELSE WriteReg(s, dest, v.val)

perform_load_mem(s, src_addr, dest_reg) ==
  LET m == Unwrap(MemRead(s.memory, src_addr))
  IN  IF ~IsOk(m) THEN Unchanged(s, m) ELSE WriteReg(s, dest_reg, m.val)

perform_store_mem(s, src_reg, dest_addr) ==
  LET r == RegRead(s.registers, src_reg)
      w == Unwrap(MemWriteRes(s.memory, dest_addr))
  IN  IF ~IsOk(r) THEN Unchanged(s, r)
      ELSE IF ~IsOk(w) THEN Unchanged(s, w)
      ELSE [s |-> [s EXCEPT !.memory = MemWrite(@, dest_addr, r.val)], res |-> Ok(Zero64)]

\* the match of perform_next_instr with a Halt arm that also clears both flags
Dispatch_halt_clears_flags(s, i) ==
  CASE i.op = "Illegal" -> handle_illegal_opcode(s)
    [] i.op = "Halt" -> Unchanged([s EXCEPT !.flag_zero = FALSE, !.flag_carry = FALSE],
                                  Ok(Zero64))
    [] i.op = "Load" -> perform_load(s, i.value, i.dest_reg)
    [] i.op = "Copy" -> perform_copy(s, i.src, i.dest)
    [] i.op = "Add" -> perform_add(s, i.src1, i.src2, i.dest)
    [] i.op = "Sub" -> perform_sub(s, i.src1, i.src2, i.dest)
    [] i.op = "Mult" -> perform_mult(s, i.src1, i.src2, i.dest)
    [] i.op = "Div" -> perform_div(s, i.src1, i.src2, i.quot_dest, i.rem_dest)
    [] i.op = "Cmp" -> perform_cmp(s, i.src1, i.src2)
    [] i.op = "Jmp" -> perform_jmp(s, i.src)
    [] i.op = "Jz" -> perform_jz(s, i.src)
    [] i.op = "Jnz" -> perform_jnz(s, i.src)
    [] i.op = "Jgt" -> perform_jgt(s, i.src)
    [] i.op = "Jlt" -> perform_jlt(s, i.src)
    [] i.op = "Inc" -> perform_inc(s, i.dest)
    [] i.op = "Dec" -> perform_dec(s, i.dest)
    [] i.op = "LoadMem" -> perform_load_mem(s, i.src_addr, i.dest_reg)
    [] i.op = "StoreMem" -> perform_store_mem(s, i.src_reg, i.dest_addr)

\* the match of perform_next_instr: the handler's effect on the engine
Dispatch(s, i) ==
  CASE i.op = "Illegal" -> handle_illegal_opcode(s)
    [] i.op = "Halt" -> Unchanged(s, Ok(Zero64))
    [] i.op = "Load" -> perform_load(s, i.value, i.dest_reg)
    [] i.op = "Copy" -> perform_copy(s, i.src, i.dest)
    [] i.op = "Add" -> perform_add(s, i.src1, i.src2, i.dest)
    [] i.op = "Sub" -> perform_sub(s, i.src1, i.src2, i.dest)
    [] i.op = "Mult" -> perform_mult(s, i.src1, i.src2, i.dest)
    [] i.op = "Div" -> perform_div(s, i.src1, i.src2, i.quot_dest, i.rem_dest)
    [] i.op = "Cmp" -> perform_cmp(s, i.src1, i.src2)
    [] i.op = "Jmp" -> perform_jmp(s, i.src)
    [] i.op = "Jz" -> perform_jz(s, i.src)
    [] i.op = "Jnz" -> perform_jnz(s, i.src)
    [] i.op = "Jgt" -> perform_jgt(s, i.src)
    [] i.op = "Jlt" -> perform_jlt(s, i.src)
    [] i.op = "Inc" -> perform_inc(s, i.dest)
    [] i.op = "Dec" -> perform_dec(s, i.dest)
    [] i.op = "LoadMem" -> perform_load_mem(s, i.src_addr, i.dest_reg)
    [] i.op = "StoreMem" -> perform_store_mem(s, i.src_reg, i.dest_addr)

\* perform_next_instr returning true for a handler that failed too
StepReturns_despite_error(i, res) == i.op # "Halt"

\* perform_next_instr without its Halt arm returning false
StepReturns_ok(i, res) == IsOk(res)

\* the bool perform_next_instr returns: false for Halt, is_ok() of the handler otherwise
StepReturns(i, res) == IF i.op = "Halt" THEN FALSE ELSE IsOk(res)

\* read_next_inst reading after the increment instead of before it
read_next_inst_ahead(s) ==
  Unwrap(MemRead(s.memory, WrapAdd(s.registers.instr_pointer, One64)))

\* read_next_inst taking the words of the loaded program from the image given
\* to with_program, and the memory for the cells past it
read_next_inst_from_image(s) ==
  IF AddressValid(program, s.registers.instr_pointer)
  THEN Ok(program[ToNat(s.registers.instr_pointer) + 1])
  ELSE Unwrap(MemRead(s.memory, s.registers.instr_pointer))

\* read_next_inst: memory.read(instr_pointer as usize).unwrap()
read_next_inst(s) == Unwrap(MemRead(s.memory, s.registers.instr_pointer))

\* consume_next_instr without the increment
consume_next_instr_stay(s) == s

\* consume_next_instr after a successful read: instr_pointer += 1
consume_next_instr(s) ==
  [s EXCEPT !.registers.instr_pointer = WrapAdd(@, One64)]

NoInstr == [op |-> "None"]

\* the record of a call of perform_next_instr whose read_next_inst panicked:
\* nothing was consumed, decoded or dispatched
FetchPanicked(s, f) ==
  [fetched |-> FALSE, addr |-> s.registers.instr_pointer, word |-> Zero64,
   instr |-> NoInstr, res |-> f, cont |-> FALSE, pre |-> s]

\* the record of a call of perform_next_instr on engine s that fetched word,
\* decoded it to i and dispatched it with outcome out
Performed(s, word, i, out) ==
  [fetched |-> TRUE, addr |-> s.registers.instr_pointer, word |-> word,
   instr |-> i, res |-> out.res, cont |-> StepReturns(i, out.res), pre |-> s]

\* the register file the handler of step st worked on: the one before the
\* step, with the instruction pointer already moved past the fetched word
Seen(st) == [st.pre.registers EXCEPT !.instr_pointer = WrapAdd(st.addr, One64)]

\* no Cmp has succeeded yet
NotCompared == [done |-> FALSE, a |-> Zero64, b |-> Zero64, age |-> 0]

\* the operands the flags stand for after step st: those of st when it is a
\* successful Cmp, else those of the Cmp before it, one step older
Compared(c, st) ==
  IF st.instr.op = "Cmp" /\ IsOk(st.res)
  THEN [done |-> TRUE, a |-> RegRead(Seen(st), st.instr.src1).val,
        b |-> RegRead(Seen(st), st.instr.src2).val, age |-> 0]
  ELSE IF c.done THEN [c EXCEPT !.age = @ + 1] ELSE c

\* no StoreMem has succeeded yet: no cell holds a stored value
NoStores == <<>>

\* the stored values after step st, by cell: a successful StoreMem records,
\* for the cell of its dest_addr, the value it read from its src_reg
Stored(m, st) ==
  IF st.instr.op = "StoreMem" /\ IsOk(st.res)
  THEN [a \in DOMAIN m \cup {ToNat(st.instr.dest_addr) + 1} |->
          IF a = ToNat(st.instr.dest_addr) + 1
          THEN RegRead(Seen(st), st.instr.src_reg).val
          ELSE m[a]]
  ELSE m

(***************************************************************************)
(* RuntimeBuilder, and the programs and register files it is given.        *)
(***************************************************************************)
\* bit k of the natural number v
BitOfNat(v, k) == IF k < 0 \/ k > 30 THEN 0 ELSE (v \div (2 ^ k)) % 2

\* the instruction word with the given opcode and operand fields; a field is
\* <<value, offset within the operand region>>, as in the layout comments of
\* src/instruction.rs and the binary literals of the tests
Asm(opcode, fields) ==
  FromBits([i \in 0..63 |->
     IF i < OPCODE_OFFSET THEN BitOfNat(opcode, i)
     ELSE IF \E n \in 1..Len(fields) :
                BitOfNat(fields[n][1], i - OPCODE_OFFSET - fields[n][2]) = 1
          THEN 1 ELSE 0])

Halt == Asm(0, <<>>)

Load(value, dest) == Asm(1, <<<<value, 0>>, <<dest, LOAD_DEST_OFFSET>>>>)

Add(src1, src2, dest) ==
  Asm(2, <<<<src1, 0>>, <<src2, ADD_RAND2_OFFSET>>, <<dest, ADD_DEST_OFFSET>>>>)

Sub(src1, src2, dest) ==
  Asm(3, <<<<src1, 0>>, <<src2, SUB_RAND2_OFFSET>>, <<dest, SUB_DEST_OFFSET>>>>)

Mult(src1, src2, dest) ==
  Asm(4, <<<<src1, 0>>, <<src2, MULT_RAND2_OFFSET>>, <<dest, MULT_DEST_OFFSET>>>>)

Cmp(src1, src2) == Asm(5, <<<<src1, 0>>, <<src2, CMP_RAND2_OFFSET>>>>)

Jmp(src) == Asm(6, <<<<src, 0>>>>)

Jz(src) == Asm(7, <<<<src, 0>>>>)

Jnz(src) == Asm(8, <<<<src, 0>>>>)

Jgt(src) == Asm(9, <<<<src, 0>>>>)

Jlt(src) == Asm(10, <<<<src, 0>>>>)

Div(src1, src2, quot, rem) ==
  Asm(11, <<<<src1, 0>>, <<src2, DIV_RAND2_OFFSET>>, <<quot, DIV_QUOT_OFFSET>>,
            <<rem, DIV_REM_OFFSET>>>>)

Copy(src, dest) == Asm(12, <<<<src, 0>>, <<dest, COPY_RAND2_OFFSET>>>>)

Inc(dest) == Asm(13, <<<<dest, 0>>>>)

Dec(dest) == Asm(14, <<<<dest, 0>>>>)

LoadMem(addr, dest) == Asm(15, <<<<addr, 0>>, <<dest, LOAD_MEM_DEST_OFFSET>>>>)

StoreMem(src, addr) == Asm(16, <<<<src, 0>>, <<addr, STORE_MEM_DEST_OFFSET>>>>)

\* the words programs are made of: every opcode, and operands that reach the
\* handlers' failures
InstrWords ==
  { Halt,
    Asm(17, <<>>),             \* unassigned opcode
    Load(9, 0),                \* 9 is an address outside the memory
    Add(0, 1, 2),
    Sub(2, 0, 2),
    Mult(2, 1, 3),
    Div(2, 1, 0, 3),
    Div(5, 1, 2, 3),           \* src1 is no register
    Div(0, 3, 2, 4),           \* the remainder goes to the instruction pointer
    Cmp(1, 0),
    Jmp(0),
    Jmp(7),                    \* no register
    Jz(0),
    Jnz(0),
    Jgt(0),
    Jlt(0),
    Copy(4, 1),
    Inc(3),
    Dec(2),
    LoadMem(1, 2),
    LoadMem(40000, 2),         \* bit 15 of the address field is set
    StoreMem(3, 1),            \* into the program image
    StoreMem(0, 300) }         \* an address outside the memory

\* the images handed to with_program
Programs == [1..ProgLen -> InstrWords]

\* the register files handed to with_registers (the first is Registers::default())
RegInits ==
  { DefaultRegisters,
    [data0 |-> W(1), data1 |-> WrapNeg(One64), data2 |-> MinWord, data3 |-> MaxWord,
     instr_pointer |-> Zero64] }

\* RuntimeBuilder::with_program: memory.write(index, word).expect(..) for each
\* word in turn; the first failing write panics
with_program_res(buffer, prog) ==
  IF Len(prog) > Len(buffer) THEN Panic(InvalidAddress(buffer, W(Len(buffer))))
  ELSE Ok(Zero64)

\* with_program installing the words from address 1 upward
with_program_from_one(buffer, prog) ==
  [a \in 1..Len(buffer) |-> IF a >= 2 /\ a - 1 <= Len(prog) THEN prog[a - 1] ELSE buffer[a]]

\* the buffer after the writes of with_program: the words that fit are written
with_program(buffer, prog) ==
  [a \in 1..Len(buffer) |-> IF a <= Len(prog) THEN prog[a] ELSE buffer[a]]

Unit == [tag |-> "Unit", err |-> NoError]

NotReturned == [tag |-> "None", err |-> NoError]

\* no instruction performed yet
NoStep(s) ==
  [fetched |-> FALSE, addr |-> Zero64, word |-> Zero64, instr |-> NoInstr,
   res |-> [tag |-> "None", val |-> Zero64, err |-> NoError], cont |-> FALSE,
   pre |-> s]

\* the calls of a builder chain that gives its memory, registers and program
BuilderChain == <<"with_memory", "with_registers", "with_program", "build">>

\* no second Runtime
NoPeer == [pc |-> "absent"]

\* no VM
NoVm == [pc |-> "absent"]

\* the engine is the only one there is
Alone == peer = NoPeer /\ vm = NoVm

\* RuntimeBuilder::new().with_memory(..).with_registers(..).with_program(..).build()
\* for the memory buffer, programs drawn from progs and register files from regs
Assembled(buffer, progs, regs) ==
  /\ overflow_checks \in BOOLEAN
  /\ program \in progs
  /\ IsOk(with_program_res(buffer, program))
  /\ registers \in regs
  /\ memory = with_program(buffer, program)
  /\ flag_zero = FALSE
  /\ flag_carry = FALSE
  /\ running = FALSE
  /\ pc = "ready"
  /\ ret = NotReturned
  /\ steps = 0
  /\ compared = NotCompared
  /\ stored = NoStores
  /\ calls = BuilderChain
  /\ last = NoStep([registers |-> registers, flag_zero |-> FALSE, flag_carry |-> FALSE,
                    memory |-> memory])

\* the same, no other engine being there
BuiltIn(buffer, progs, regs) == Assembled(buffer, progs, regs) /\ Alone

\* the same on a memory of MemWords words
Built(progs, regs) == BuiltIn(NewMemory, progs, regs)

Init == Built(Programs, RegInits)

\* Runtime::run is called on the engine as built: running = true, and the loop
\* is entered
Run ==
  /\ pc = "ready"
  /\ steps = 0
  /\ running' = TRUE
  /\ pc' = "loop"
  /\ ret' = NotReturned
  /\ UNCHANGED <<registers, flag_zero, flag_carry, memory, last, steps, compared,
                 stored, calls, peer, vm, program, overflow_checks>>

\* one turn of the loop of run: running = perform_next_instr(); when that is
\* false the loop ends and run returns (); a panic unwinds out of run before
\* the assignment to running
Perform(limit) ==
  /\ pc = "loop"
  /\ running
  /\ steps < limit
  /\ \E f \in {read_next_inst(Engine)} :
       IF ~IsOk(f)
       THEN /\ last' = FetchPanicked(Engine, f)
            /\ pc' = "panicked"
            /\ UNCHANGED <<registers, flag_zero, flag_carry, memory, running, ret,
                           compared, stored>>
       ELSE \E opcode \in {OpcodeOf(f.val)}, operands \in {OperandsOf(f.val)} :
            \E i \in {DecodeOp(opcode, operands)} :
            \E out \in {Dispatch(consume_next_instr(Engine), i)} :
            \E st \in {Performed(Engine, f.val, i, out)} :
              /\ registers' = out.s.registers
              /\ flag_zero' = out.s.flag_zero
              /\ flag_carry' = out.s.flag_carry
              /\ memory' = out.s.memory
              /\ last' = st
              /\ compared' = Compared(compared, st)
              /\ stored' = Stored(stored, st)
              /\ IF out.res.tag = "Panic"
                 THEN /\ running' = running
                      /\ pc' = "panicked"
                      /\ ret' = ret
                 ELSE /\ running' = st.cont
                      /\ pc' = IF st.cont THEN "loop" ELSE "returned"
                      /\ ret' = IF st.cont THEN ret ELSE Unit
  /\ steps' = steps + 1
  /\ UNCHANGED <<calls, peer, vm, program, overflow_checks>>

\* a turn of the loop, of the first MaxSteps
PerformNextInstr == Perform(MaxSteps)

Next == Run \/ PerformNextInstr

Spec == Init /\ [][Next]_vars

\* the record of a direct call of consume_next_instr that returned word
Consumed(s, word) ==
  [fetched |-> TRUE, addr |-> s.registers.instr_pointer, word |-> word,
   instr |-> NoInstr, res |-> Ok(word), cont |-> FALSE, pre |-> s]

\* consume_next_instr called directly on the engine as built, as the tests of
\* src/runtime.rs do (fetching_next_instruction_consumes_previous_ones)
ConsumeNextInstr ==
  /\ pc = "ready"
  /\ steps < MaxSteps
  /\ \E f \in {read_next_inst(Engine)} :
       IF ~IsOk(f)
       THEN /\ last' = FetchPanicked(Engine, f)
            /\ pc' = "panicked"
            /\ UNCHANGED registers
       ELSE /\ last' = Consumed(Engine, f.val)
            /\ registers' = consume_next_instr(Engine).registers
            /\ pc' = pc
  /\ steps' = steps + 1
  /\ UNCHANGED <<flag_zero, flag_carry, memory, running, ret, compared, stored,
                 calls, peer, vm, program, overflow_checks>>

NextFetch == Run \/ PerformNextInstr \/ ConsumeNextInstr

\* the engine driven by run, or fetched from directly by a test
SpecFetch == Init /\ [][NextFetch]_vars


(***************************************************************************)
(* What a step did, read from its record.                                  *)
(***************************************************************************)
JumpOps == {"Jmp", "Jz", "Jnz", "Jgt", "Jlt"}

\* the flag test of the jump of step st, on the flags the handler saw
BranchHolds(st) ==
  CASE st.instr.op = "Jmp" -> TRUE
    [] st.instr.op = "Jz" -> st.pre.flag_zero
    [] st.instr.op = "Jnz" -> ~st.pre.flag_zero
    [] st.instr.op = "Jgt" -> ~st.pre.flag_carry
    [] st.instr.op = "Jlt" -> st.pre.flag_carry
    [] OTHER -> FALSE

\* step st is a jump that was taken and succeeded
TakenJump(st) ==
  st.fetched /\ st.instr.op \in JumpOps /\ BranchHolds(st) /\ IsOk(st.res)

DataRegs(regs) == <<regs.data0, regs.data1, regs.data2, regs.data3>>

\* a call of perform_next_instr has been made, and st is its record
Attempted(st) == st.res.tag # "None"

(***************************************************************************)
(* Runtime::run and its errors.                                            *)
(***************************************************************************)
\* C1: once run has returned, what it returned tells how the loop ended: no
\* error when a Halt stopped it, and the error of the failed instruction when
\* an instruction failed.
C1_RunReportsOutcome ==
  pc = "returned" =>
    /\ (last.instr.op = "Halt" => ret.tag # "Err")
    /\ (last.res.tag = "Err" => (ret.tag = "Err" /\ ret.err = last.res.err))

\* C2 (I1): every fetch the engine attempts is made with an instruction
\* pointer inside the memory, 0 <= IP < memory_length.
C2_FetchInRange ==
  Attempted(last) => AddressValid(last.pre.memory, last.addr)

\* step st made a memory access outside the memory: its fetch, or the access
\* of its LoadMem or StoreMem
OutOfRangeAccess(st) ==
  /\ Attempted(st)
  /\ \/ ~AddressValid(st.pre.memory, st.addr)
     \/ /\ st.instr.op = "LoadMem"
        /\ ~AddressValid(st.pre.memory, st.instr.src_addr)
     \/ /\ st.instr.op = "StoreMem"
        /\ IsOk(RegRead(Seen(st), st.instr.src_reg))
        /\ ~AddressValid(st.pre.memory, st.instr.dest_addr)

\* C3: a step whose memory access is out of range fails with an invalid
\* memory address error value, never with a panic, and leaves the data
\* registers and the memory as they were.
C3_OutOfRangeIsAnError ==
  OutOfRangeAccess(last) =>
    /\ last.res.tag = "Err"
    /\ last.res.err.kind = "InvalidAddress"
    /\ DataRegs(registers) = DataRegs(last.pre.registers)
    /\ memory = last.pre.memory

\* C4: the instr_pointer carried by an InvalidRegister or DivisionByZero
\* error is the address the failing instruction was fetched from, while the
\* instruction pointer register holds that address plus one.
C4_PayloadIsFetchAddress ==
  (last.res.tag = "Err" /\ last.res.err.kind \in {"InvalidRegister", "DivisionByZero"}) =>
    /\ last.res.err.instr_pointer = last.addr
    /\ registers.instr_pointer = WrapAdd(last.addr, One64)

\* C5: a fetched word with an unassigned opcode fails with IllegalOpcode
\* carrying that very word and the address it was fetched from, at every
\* address of the memory.
C5_IllegalOpcodePayload ==
  (last.fetched /\ last.instr.op = "Illegal") =>
    /\ last.res.tag = "Err"
    /\ last.res.err.kind = "IllegalOpcode"
    /\ last.res.err.instruction = last.word
    /\ last.res.err.instr_pointer = last.addr


(***************************************************************************)
(* Division by zero.                                                       *)
(***************************************************************************)
\* step st is a Div whose divisor register src2 holds 0
ZeroDivisor(st) ==
  /\ st.fetched
  /\ st.instr.op = "Div"
  /\ IsOk(RegRead(Seen(st), st.instr.src2))
  /\ RegRead(Seen(st), st.instr.src2).val = Zero64

\* C6 as stated: every Div step whose divisor register holds 0 fails with
\* DivisionByZero and leaves every data register unchanged.
C6_ZeroDivisorIsDivisionByZero ==
  ZeroDivisor(last) =>
    /\ last.res.tag = "Err"
    /\ last.res.err.kind = "DivisionByZero"
    /\ DataRegs(registers) = DataRegs(last.pre.registers)

\* C6: every Div step whose divisor register holds 0 fails and leaves every
\* data register unchanged; the error is DivisionByZero when src1 names a
\* register, and InvalidRegister for src1 when it does not.
C6_ZeroDivisorFails ==
  ZeroDivisor(last) =>
    /\ last.res.tag = "Err"
    /\ IF IsOk(RegRead(Seen(last), last.instr.src1))
       THEN last.res.err.kind = "DivisionByZero"
       ELSE /\ last.res.err.kind = "InvalidRegister"
            /\ last.res.err.number = last.instr.src1
    /\ DataRegs(registers) = DataRegs(last.pre.registers)

\* a Div by zero failed with DivisionByZero and its quotient register kept a
\* value loaded before
C6_Witness ==
  /\ ZeroDivisor(last)
  /\ last.res.tag = "Err"
  /\ last.res.err.kind = "DivisionByZero"
  /\ last.instr.quot_dest = 0
  /\ registers.data0 # Zero64

(***************************************************************************)
(* The instruction pointer and the running flag across steps.              *)
(***************************************************************************)
\* C7: when a Halt fetched from address h has executed, the engine has
\* stopped and the instruction pointer is h + 1.
C7_HaltLeavesIpPastHalt ==
  (last.fetched /\ last.instr.op = "Halt") =>
    /\ pc = "returned"
    /\ ~running
    /\ registers.instr_pointer = WrapAdd(last.addr, One64)

\* a Halt fetched from address 1 has stopped the engine
C7_Witness ==
  /\ last.fetched
  /\ last.instr.op = "Halt"
  /\ last.addr = One64
  /\ pc = "returned"

\* C8: after every step whose instruction is neither a taken jump nor Halt,
\* the instruction pointer is the address of the instruction plus one, which
\* is strictly greater, whether the handler succeeded or failed.
C8_IpAdvances ==
  (last.fetched /\ last.instr.op # "Halt" /\ ~TakenJump(last)) =>
    /\ registers.instr_pointer = WrapAdd(last.addr, One64)
    /\ Lt64(last.addr, registers.instr_pointer)

\* a conditional jump was not taken, and the register it names holds another
\* address than the one the instruction pointer moved to
C8_Witness ==
  /\ last.fetched
  /\ last.instr.op \in JumpOps
  /\ ~BranchHolds(last)
  /\ IsOk(RegRead(Seen(last), last.instr.src))
  /\ RegRead(Seen(last), last.instr.src).val # registers.instr_pointer
  /\ registers.instr_pointer = WrapAdd(last.addr, One64)

\* C9: running is false from build until run is invoked, true at every
\* instruction boundary of the loop, false once a Halt has executed, and only
\* a Halt or a failing instruction makes the loop end with it false.
C9_RunningFlag ==
  /\ pc = "ready" => ~running
  /\ pc = "loop" => running
  /\ (last.fetched /\ last.instr.op = "Halt") => ~running
  /\ (last.fetched /\ last.instr.op # "Halt" /\ IsOk(last.res)) => running
  /\ pc = "returned" => (~running /\ (last.instr.op = "Halt" \/ last.res.tag = "Err"))

\* a Halt ended a loop that had performed an instruction before it
C9_Witness ==
  /\ pc = "returned"
  /\ last.instr.op = "Halt"
  /\ steps >= 2
  /\ ~running

\* C10: a step reads the word at memory[IP], moves IP to IP + 1, decodes and
\* dispatches: the word it runs is the one at the instruction pointer before
\* the step, a taken jump leaves registers[src] (read after the increment) in
\* the instruction pointer, so that the next step fetches there, every other
\* step leaves IP + 1, and the k-th consecutive fetch made on the engine as
\* built returns p[k-1] and leaves IP = k.
C10_StepOrder ==
  [][ /\ (pc = "loop" /\ last'.fetched) =>
           /\ last'.addr = registers.instr_pointer
           /\ last'.word = memory[ToNat(registers.instr_pointer) + 1]
           /\ last'.instr = Decode(last'.word)
           /\ IF TakenJump(last')
              THEN registers'.instr_pointer =
                     RegRead([registers EXCEPT !.instr_pointer = WrapAdd(@, One64)],
                             last'.instr.src).val
              ELSE registers'.instr_pointer = WrapAdd(registers.instr_pointer, One64)
      /\ (pc = "ready" /\ pc' = "ready" /\ last'.fetched) =>
           /\ registers'.instr_pointer = W(steps')
           /\ steps' <= Len(program) => last'.word = program[steps']
    ]_vars

\* a step fetched from an address other than the next in sequence: the one a
\* jump before it had left in the instruction pointer
C10_Witness ==
  /\ pc # "ready"
  /\ steps >= 2
  /\ last.fetched
  /\ last.addr # W(steps - 1)
  /\ last.word = last.pre.memory[ToNat(last.addr) + 1]


(***************************************************************************)
(* Compare and the conditional jumps.                                      *)
(***************************************************************************)
FlagProgLen == 3

\* compares of d1 and d0 in both orders and of no register, the conditional
\* jumps through d2, and an instruction that is neither
FlagWords ==
  { Cmp(1, 0), Cmp(0, 1), Cmp(5, 0), Jz(2), Jnz(2), Jgt(2), Jlt(2), Inc(3) }

FlagPrograms == [1..FlagProgLen -> FlagWords]

\* d1 < d0, d1 = d0 and d1 > d0 at the ends of the signed range; d2 is the
\* jump target
FlagRegs ==
  { [data0 |-> W(1), data1 |-> WrapNeg(One64), data2 |-> W(3), data3 |-> Zero64,
     instr_pointer |-> Zero64],
    DefaultRegisters,
    [data0 |-> MinWord, data1 |-> MaxWord, data2 |-> Zero64, data3 |-> Zero64,
     instr_pointer |-> Zero64] }

InitFlags == Built(FlagPrograms, FlagRegs)

\* runs of the programs that compare and jump
SpecFlags == InitFlags /\ [][Next]_vars

\* a < b as signed numbers: the sign of a - b, corrected for overflow
SignedLess(a, b) == IsNeg(WrapSub(a, b)) # SubOverflows(a, b)

\* step st is a Cmp that succeeded
CmpDone(st) == st.fetched /\ st.instr.op = "Cmp" /\ IsOk(st.res)

\* C11: after a successful Cmp of a = registers[src1] and b = registers[src2],
\* zero is (a = b) and carry is (a < b, signed), whatever the flags were; for
\* a > b both are false.
C11_CmpSetsFlags ==
  CmpDone(last) =>
    LET a == RegRead(Seen(last), last.instr.src1).val
        b == RegRead(Seen(last), last.instr.src2).val
    IN  /\ flag_zero = (a = b)
        /\ flag_carry = SignedLess(a, b)
        /\ (a # b /\ SignedLess(b, a)) => (~flag_zero /\ ~flag_carry)

\* a Cmp of a > b cleared a carry flag that was set before it
C11_Witness ==
  /\ CmpDone(last)
  /\ last.pre.flag_carry
  /\ SignedLess(RegRead(Seen(last), last.instr.src2).val,
                RegRead(Seen(last), last.instr.src1).val)
  /\ ~flag_carry
  /\ ~flag_zero

CondJumpOps == {"Jz", "Jnz", "Jgt", "Jlt"}

\* the relation of the compared a and b under which the conditional jump op
\* is to be taken
JumpWhen(op, a, b) ==
  CASE op = "Jz" -> a = b
    [] op = "Jnz" -> a # b
    [] op = "Jlt" -> SignedLess(a, b)
    [] op = "Jgt" -> ~SignedLess(a, b)

\* C12: the flags keep standing for the last successful Cmp of a and b across
\* the instructions after it, and a conditional jump (through a readable
\* register) then leaves registers[src] in IP exactly when Jz: a = b, Jnz:
\* a # b, Jlt: a < b, Jgt: a >= b; otherwise IP stays one past the jump.
C12_FlagsPersistAndDecideJumps ==
  compared.done =>
    /\ flag_zero = (compared.a = compared.b)
    /\ flag_carry = SignedLess(compared.a, compared.b)
    /\ (last.fetched /\ last.instr.op \in CondJumpOps
          /\ IsOk(RegRead(Seen(last), last.instr.src))) =>
         /\ IsOk(last.res)
         /\ registers.instr_pointer =
              IF JumpWhen(last.instr.op, compared.a, compared.b)
              THEN RegRead(Seen(last), last.instr.src).val
              ELSE WrapAdd(last.addr, One64)

\* a Jgt, one instruction after the one that followed a Cmp of equal
\* operands, was taken to another address than the next
C12_Witness ==
  /\ compared.done
  /\ compared.age >= 2
  /\ compared.a = compared.b
  /\ last.fetched
  /\ last.instr.op = "Jgt"
  /\ registers.instr_pointer = RegRead(Seen(last), last.instr.src).val
  /\ registers.instr_pointer # WrapAdd(last.addr, One64)

\* C13: a Cmp step changes nothing but the two flags and the instruction
\* pointer, which moves by one: the data registers and the memory are as
\* before; and the same Cmp of data registers, performed again on the engine
\* it left, leaves the same flags.
C13_CmpChangesOnlyFlags ==
  (last.fetched /\ last.instr.op = "Cmp") =>
    /\ DataRegs(registers) = DataRegs(last.pre.registers)
    /\ memory = last.pre.memory
    /\ registers.instr_pointer = WrapAdd(last.addr, One64)
    /\ (IsOk(last.res) /\ last.instr.src1 \in 0..3 /\ last.instr.src2 \in 0..3) =>
         LET again == perform_cmp(consume_next_instr(Engine), last.instr.src1,
                                  last.instr.src2)
         IN  /\ IsOk(again.res)
             /\ again.s.flag_zero = flag_zero
             /\ again.s.flag_carry = flag_carry
             /\ DataRegs(again.s.registers) = DataRegs(registers)
             /\ again.s.memory = memory

\* the same Cmp ran at addresses 0 and 1 with unequal operands, and the
\* second left the flags of the first
C13_Witness ==
  /\ CmpDone(last)
  /\ steps = 2
  /\ last.addr = One64
  /\ program[1] = program[2]
  /\ flag_carry
  /\ last.pre.flag_carry = flag_carry
  /\ last.pre.flag_zero = flag_zero


(***************************************************************************)
(* The register-to-register instructions.                                  *)
(***************************************************************************)
\* the arithmetic instructions on d0 and d1, a Cmp that sets the flags before
\* them, and every instruction with register 4 as a destination
ArithWords ==
  { Load(5, 1), Copy(4, 2), Add(0, 1, 2), Sub(0, 1, 0), Mult(0, 1, 3), Inc(1), Dec(0),
    Cmp(1, 0),
    Load(5, 4), Copy(0, 4), Add(0, 1, 4), Sub(0, 1, 4), Mult(0, 1, 4), Div(0, 1, 4, 2),
    Div(0, 1, 2, 4), Inc(4), Dec(4), LoadMem(1, 4) }

ArithPrograms == [1..ProgLen -> ArithWords]

\* small operands of both signs, the two ends of the signed range, and zeros
ArithRegs ==
  { [data0 |-> W(7), data1 |-> WrapNeg(W(3)), data2 |-> Zero64, data3 |-> Zero64,
     instr_pointer |-> Zero64],
    [data0 |-> MaxWord, data1 |-> One64, data2 |-> Zero64, data3 |-> Zero64,
     instr_pointer |-> Zero64],
    [data0 |-> MinWord, data1 |-> WrapNeg(One64), data2 |-> Zero64, data3 |-> Zero64,
     instr_pointer |-> Zero64],
    DefaultRegisters }

InitArith == Built(ArithPrograms, ArithRegs)

\* runs of the programs of register-to-register instructions
SpecArith == InitArith /\ [][Next]_vars

\* the field of the register file that index j names
RegName(j) == <<"data0", "data1", "data2", "data3", "instr_pointer">>[j + 1]

WritingOps == {"Load", "Copy", "Inc", "Dec", "Add", "Sub", "Mult"}

\* the destination operand of a Load, Copy, Inc, Dec, Add, Sub or Mult
DestOf(i) == IF i.op = "Load" THEN i.dest_reg ELSE i.dest

\* C14: a Load, Copy, Inc, Dec, Add, Sub or Mult step changes at most its
\* destination register and moves the instruction pointer by one: every other
\* data register, both flags and the memory are as before the step.
C14_OnlyDestinationChanges ==
  (last.fetched /\ last.instr.op \in WritingOps) =>
    /\ \A j \in 0..3 :
         j # DestOf(last.instr) => registers[RegName(j)] = last.pre.registers[RegName(j)]
    /\ flag_zero = last.pre.flag_zero
    /\ flag_carry = last.pre.flag_carry
    /\ memory = last.pre.memory
    /\ registers.instr_pointer = WrapAdd(last.addr, One64)

\* an Add wrote a new value to a destination that is not one of its sources,
\* with the carry flag set before and after
C14_Witness ==
  /\ last.fetched
  /\ last.instr.op = "Add"
  /\ IsOk(last.res)
  /\ last.instr.dest \notin {last.instr.src1, last.instr.src2}
  /\ registers[RegName(last.instr.dest)] # last.pre.registers[RegName(last.instr.dest)]
  /\ last.pre.flag_carry
  /\ flag_carry

\* w holds a number of -2^23 .. 2^23 - 1, and that number
IsSmall(w) ==
  \/ \A j \in 4..8 : w[j] = 0
  \/ \A j \in 4..8 : w[j] = 255

IntOf(w) == IF w[4] = 0 THEN ToNat(w) ELSE ToNat(w) - 16777216

\* the Word of an integer of -2^31 + 1 .. 2^31 - 1
WordOf(n) == IF n >= 0 THEN W(n) ELSE WrapNeg(W(0 - n))

\* w holds a number of -2^15 .. 2^15 - 1
IsTiny(w) == IsSmall(w) /\ IntOf(w) >= -32768 /\ IntOf(w) < 32768

ComputingOps == {"Copy", "Add", "Sub", "Mult", "Inc", "Dec"}

\* the operation a computing instruction performs on its two operands
OperationOf(op) ==
  CASE op \in {"Copy", "Add", "Inc"} -> "add"
    [] op \in {"Sub", "Dec"} -> "sub"
    [] op = "Mult" -> "mul"

\* the first operand of computing instruction i read from regs, and the
\* second: Copy adds 0, Inc adds 1, Dec subtracts 1
FirstOperand(regs, i) ==
  CASE i.op = "Copy" -> RegRead(regs, i.src)
    [] i.op \in {"Add", "Sub", "Mult"} -> RegRead(regs, i.src1)
    [] i.op \in {"Inc", "Dec"} -> RegRead(regs, i.dest)

SecondOperand(regs, i) ==
  CASE i.op = "Copy" -> Ok(Zero64)
    [] i.op \in {"Add", "Sub", "Mult"} -> RegRead(regs, i.src2)
    [] i.op \in {"Inc", "Dec"} -> Ok(One64)

\* the exact result of the operation on a and b is a signed 64-bit number
Fits(operation, a, b) ==
  CASE operation = "add" -> ~AddOverflows(a, b)
    [] operation = "sub" -> ~SubOverflows(a, b)
    [] operation = "mul" -> ~MulOverflows(a, b)

\* d is the exact result of the operation on a and b, which fits: by integer
\* arithmetic where the operands are small, and by the inverse operation
ExactResult(operation, a, b, d) ==
  CASE operation = "add" ->
         /\ (IsSmall(a) /\ IsSmall(b)) => d = WordOf(IntOf(a) + IntOf(b))
         /\ WrapSub(d, b) = a
         /\ IsNeg(a) = IsNeg(b) => IsNeg(d) = IsNeg(a)
    [] operation = "sub" ->
         /\ (IsSmall(a) /\ IsSmall(b)) => d = WordOf(IntOf(a) - IntOf(b))
         /\ WrapAdd(d, b) = a
         /\ IsNeg(a) # IsNeg(b) => IsNeg(d) = IsNeg(a)
    [] operation = "mul" ->
         /\ (IsTiny(a) /\ IsTiny(b)) => d = WordOf(IntOf(a) * IntOf(b))
         /\ (a = Zero64 \/ b = Zero64) => d = Zero64
         /\ a = One64 => d = b
         /\ b = One64 => d = a

\* step st is a computing instruction with a writable destination whose
\* operands, read from regs, are there and give a result that fits; then
\* the destination holds that result
ComputesFrom(regs, st) ==
  LET i == st.instr
      a == FirstOperand(regs, i)
      b == SecondOperand(regs, i)
  IN  (/\ st.fetched
       /\ i.op \in ComputingOps
       /\ i.dest \in 0..3
       /\ IsOk(a)
       /\ IsOk(b)
       /\ Fits(OperationOf(i.op), a.val, b.val)) =>
        /\ IsOk(st.res)
        /\ ExactResult(OperationOf(i.op), a.val, b.val, registers[RegName(i.dest)])

\* C15 as stated: the destination of a Copy, Add, Sub, Mult, Inc or Dec with
\* valid registers and a result that fits receives the exact result computed
\* from the values all five registers held before the step.
C15_ComputedFromRegistersBefore == ComputesFrom(last.pre.registers, last)

\* C15: the destination of a Copy, Add, Sub, Mult, Inc or Dec with valid
\* registers and a result that fits receives the exact result computed from
\* the values the data registers held before the step, and, for a source
\* that names register 4, from the address of the instruction plus one.
C15_ComputedFromRegistersSeen == ComputesFrom(Seen(last), last)

\* a Mult wrote the product of two operands that are neither 0 nor 1
C15_Witness ==
  /\ last.fetched
  /\ last.instr.op = "Mult"
  /\ IsOk(last.res)
  /\ IntOf(RegRead(Seen(last), last.instr.src1).val) = 7
  /\ IntOf(RegRead(Seen(last), last.instr.src2).val) = -3
  /\ registers[RegName(last.instr.dest)] = WordOf(-21)


\* step st is a Div of readable sources into writable destinations with a
\* divisor other than 0
DivOfNonZero(st) ==
  /\ st.fetched
  /\ st.instr.op = "Div"
  /\ IsOk(RegRead(Seen(st), st.instr.src1))
  /\ IsOk(RegRead(Seen(st), st.instr.src2))
  /\ st.instr.quot_dest \in 0..3
  /\ st.instr.rem_dest \in 0..3
  /\ RegRead(Seen(st), st.instr.src2).val # Zero64

\* C16: a Div with valid registers and a divisor other than 0 succeeds, and
\* then quot_dest holds the quotient truncated toward zero and rem_dest the
\* remainder with the sign of the dividend: quotient * divisor + remainder =
\* dividend and |remainder| < |divisor|.
C16_DivWritesQuotientAndRemainder ==
  DivOfNonZero(last) =>
    LET a == RegRead(Seen(last), last.instr.src1).val
        b == RegRead(Seen(last), last.instr.src2).val
        q == registers[RegName(last.instr.quot_dest)]
        r == registers[RegName(last.instr.rem_dest)]
    IN  /\ IsOk(last.res)
        /\ WrapAdd(WrapMul(q, b), r) = a
        /\ ~MulOverflows(q, b)
        /\ (r = Zero64 \/ IsNeg(r) = IsNeg(a))
        /\ ULt(Abs64(r), Abs64(b))

\* step st is an Add, Sub, Mult, Inc or Dec of readable operands into a
\* writable destination whose exact result is no signed 64-bit number
Overflowing(st) ==
  /\ st.fetched
  /\ st.instr.op \in {"Add", "Sub", "Mult", "Inc", "Dec"}
  /\ st.instr.dest \in 0..3
  /\ IsOk(FirstOperand(Seen(st), st.instr))
  /\ IsOk(SecondOperand(Seen(st), st.instr))
  /\ ~Fits(OperationOf(st.instr.op), FirstOperand(Seen(st), st.instr).val,
           SecondOperand(Seen(st), st.instr).val)

\* the result of the operation on a and b reduced modulo 2^64
Wrapped(operation, a, b) ==
  CASE operation = "add" -> WrapAdd(a, b)
    [] operation = "sub" -> WrapSub(a, b)
    [] operation = "mul" -> WrapMul(a, b)

\* C17: an Add, Sub, Mult, Inc or Dec whose exact result is out of the signed
\* 64-bit range succeeds all the same, and its destination holds the result
\* reduced modulo 2^64: overflow is no error and no abort.
C17_OverflowWraps ==
  Overflowing(last) =>
    /\ IsOk(last.res)
    /\ registers[RegName(last.instr.dest)] =
         Wrapped(OperationOf(last.instr.op), FirstOperand(Seen(last), last.instr).val,
                 SecondOperand(Seen(last), last.instr).val)

(***************************************************************************)
(* Who writes the instruction pointer.                                     *)
(***************************************************************************)
\* instruction i names register 4 as a destination
NamesIpAsDest(i) ==
  CASE i.op \in {"Load", "LoadMem"} -> i.dest_reg = 4
    [] i.op \in {"Copy", "Add", "Sub", "Mult", "Inc", "Dec"} -> i.dest = 4
    [] i.op = "Div" -> i.quot_dest = 4 \/ i.rem_dest = 4
    [] OTHER -> FALSE

\* every step leaves in the instruction pointer the address of its
\* instruction plus one, or, for a taken jump, what the jump read
IpFromFetchOrJump ==
  last.fetched =>
    registers.instr_pointer =
      IF TakenJump(last) THEN RegRead(Seen(last), last.instr.src).val
      ELSE WrapAdd(last.addr, One64)

MaxCalls == 2

\* register indexes: a data register, the last one, the instruction pointer,
\* and two that name nothing
CallIndexes == {0, 3, 4, 5, 6}

\* addresses: the first and the last cell, the first address past the memory,
\* and the negative and the largest ones
CallAddresses ==
  {Zero64, W(MemWords - 1), W(MemWords), WrapNeg(One64), MinWord, MaxWord}

CallData == {W(9), WrapNeg(One64)}

\* the engines whose registers and memory are called: one image, of Loads
InitAccess == Built({[k \in 1..ProgLen |-> Load(9, 0)]}, RegInits)

\* the record of a direct call and its result on engine s
Called(s, call, res) ==
  [fetched |-> FALSE, addr |-> Zero64, word |-> Zero64, instr |-> call, res |-> res,
   cont |-> FALSE, pre |-> s]

\* self.registers.read(index)
RegistersRead ==
  /\ pc = "ready"
  /\ steps < MaxCalls
  /\ \E index \in CallIndexes :
       last' = Called(Engine, [op |-> "Registers::read", index |-> index],
                      RegRead(registers, index))
  /\ steps' = steps + 1
  /\ UNCHANGED <<registers, flag_zero, flag_carry, memory, running, pc, ret,
                 compared, stored, calls, peer, vm, program, overflow_checks>>

\* self.registers.write(index, data)
RegistersWrite ==
  /\ pc = "ready"
  /\ steps < MaxCalls
  /\ \E index \in CallIndexes, data \in CallData :
       /\ registers' = RegWrite(registers, index, data)
       /\ last' = Called(Engine, [op |-> "Registers::write", index |-> index,
                                  data |-> data],
                         RegWriteRes(registers, index))
  /\ steps' = steps + 1
  /\ UNCHANGED <<flag_zero, flag_carry, memory, running, pc, ret, compared, stored,
                 calls, peer, vm, program, overflow_checks>>

\* self.memory.read(address)
MemoryRead ==
  /\ pc = "ready"
  /\ steps < MaxCalls
  /\ \E address \in CallAddresses :
       last' = Called(Engine, [op |-> "Memory::read", address |-> address],
                      MemRead(memory, address))
  /\ steps' = steps + 1
  /\ UNCHANGED <<registers, flag_zero, flag_carry, memory, running, pc, ret,
                 compared, stored, calls, peer, vm, program, overflow_checks>>

\* self.memory.write(address, data)
MemoryWrite ==
  /\ pc = "ready"
  /\ steps < MaxCalls
  /\ \E address \in CallAddresses, data \in CallData :
       /\ memory' = MemWrite(memory, address, data)
       /\ last' = Called(Engine, [op |-> "Memory::write", address |-> address,
                                  data |-> data],
                         MemWriteRes(memory, address))
  /\ steps' = steps + 1
  /\ UNCHANGED <<registers, flag_zero, flag_carry, running, pc, ret, compared,
                 stored, calls, peer, vm, program, overflow_checks>>

NextAccess == RegistersRead \/ RegistersWrite \/ MemoryRead \/ MemoryWrite

\* sequences of direct calls of Registers and Memory on the engine as built
SpecAccess == InitAccess /\ [][NextAccess]_vars

\* the error both of Registers' functions return for index
IsInvalidRegister(res, index) ==
  /\ res.tag = "Err"
  /\ res.err.kind = "InvalidRegister"
  /\ res.err.number = index

\* C18: Registers::read(index) returns the value of the register for index
\* 0..4 and InvalidRegister with number = index otherwise, changing nothing;
\* Registers::write(index, value) stores the value for index 0..3, changing
\* no other register, and otherwise returns InvalidRegister with number =
\* index and leaves all five registers unchanged.
C18_RegistersReadWrite ==
  /\ last.instr.op = "Registers::read" =>
       /\ registers = last.pre.registers
       /\ IF last.instr.index \in {0, 1, 2, 3, 4}
          THEN /\ last.res.tag = "Ok"
               /\ last.res.val = registers[RegName(last.instr.index)]
          ELSE IsInvalidRegister(last.res, last.instr.index)
  /\ last.instr.op = "Registers::write" =>
       IF last.instr.index \in {0, 1, 2, 3}
       THEN /\ last.res.tag = "Ok"
            /\ registers =
                 [last.pre.registers EXCEPT ![RegName(last.instr.index)] = last.instr.data]
       ELSE /\ IsInvalidRegister(last.res, last.instr.index)
            /\ registers = last.pre.registers

\* a write to index 4 was refused and left the instruction pointer, which
\* holds another value than the one offered
C18_Witness ==
  /\ last.instr.op = "Registers::write"
  /\ last.instr.index = 4
  /\ IsInvalidRegister(last.res, 4)
  /\ registers.instr_pointer # last.instr.data
  /\ registers = last.pre.registers

\* 0 <= address < length of the buffer
InRange(buffer, address) ==
  IsSmall(address) /\ IntOf(address) >= 0 /\ IntOf(address) < Len(buffer)

\* the error both of Memory's functions return for address
IsInvalidAddress(res, buffer, address) ==
  /\ res.tag = "Err"
  /\ res.err.kind = "InvalidAddress"
  /\ res.err.requested_address = address
  /\ res.err.upper_bound = Len(buffer)

\* C20: Memory::read and Memory::write succeed exactly when 0 <= address <
\* length, and otherwise return the invalid-address error with the requested
\* address and upper_bound = length, changing no cell; a successful
\* write(a, v) changes cell a only, and read(a) then returns v.
C20_MemoryReadWrite ==
  /\ last.instr.op = "Memory::read" =>
       /\ memory = last.pre.memory
       /\ IF InRange(memory, last.instr.address)
          THEN /\ last.res.tag = "Ok"
               /\ last.res.val = memory[IntOf(last.instr.address) + 1]
          ELSE IsInvalidAddress(last.res, memory, last.instr.address)
  /\ last.instr.op = "Memory::write" =>
       IF InRange(last.pre.memory, last.instr.address)
       THEN /\ last.res.tag = "Ok"
            /\ memory = [last.pre.memory EXCEPT
                           ![IntOf(last.instr.address) + 1] = last.instr.data]
            /\ MemRead(memory, last.instr.address) = Ok(last.instr.data)
       ELSE /\ IsInvalidAddress(last.res, last.pre.memory, last.instr.address)
            /\ memory = last.pre.memory

\* a read of the last cell returned what a write had put there before
C20_Witness ==
  /\ last.instr.op = "Memory::read"
  /\ last.instr.address = W(Len(memory) - 1)
  /\ last.res.tag = "Ok"
  /\ last.res.val = WrapNeg(One64)
  /\ last.pre.memory = memory
  /\ Len(program) < Len(memory)


(***************************************************************************)
(* The codec on words of every shape: Instruction::from called on a word,  *)
(* and the word then run as a one-word program.                            *)
(***************************************************************************)
\* every assigned opcode, the first unassigned one, the one of the codec's
\* test (0b1000000000) and the last of the 10-bit range
CodecOpcodes == (0..17) \cup {512, 1023}

\* the 27 one bits of a whole 27-bit field
Ones27 == 2 ^ 27 - 1

\* operand regions, as fields <<value, offset>>
CodecOperands ==
  { <<>>,
    <<<<Ones27, 0>>, <<Ones27, 27>>>>,       \* all 54 bits: the word is negative
    <<<<5, 0>>>>,                            \* the lowest field names no register
    <<<<256, 0>>>>,                          \* bit 8 of the lowest field
    <<<<1, 0>>, <<1073741824, 15>>>>,        \* bit 45, the top of Load's value
    <<<<40000, 0>>, <<2, 27>>>>,             \* bit 15 of the lowest field
    <<<<65537, 0>>, <<1, 27>>>>,             \* bit 16 of the lowest field
    <<<<3, 0>>, <<67108865, 27>>>> }         \* bit 53: bit 63 of the word

CodecWords == {Asm(o, f) : o \in CodecOpcodes, f \in CodecOperands}

\* one-word images
CodecPrograms == {<<w>> : w \in CodecWords}

InitCodec == Built(CodecPrograms, RegInits)

\* the record of a direct call of Instruction::from on word: it returns an
\* Instruction, never a Result
Decoded(s, word) ==
  [fetched |-> FALSE, addr |-> Zero64, word |-> word, instr |-> Decode(word),
   res |-> [tag |-> "Decoded", val |-> Zero64, err |-> NoError], cont |-> FALSE,
   pre |-> s]

\* Instruction::from(word) called on the word of the image, as
\* tests::instruction_from_word does, before the engine is run
From ==
  /\ pc = "ready"
  /\ steps = 0
  /\ last.res.tag = "None"
  /\ last' = Decoded(Engine, program[1])
  /\ UNCHANGED <<registers, flag_zero, flag_carry, memory, running, pc, ret, steps,
                 compared, stored, calls, peer, vm, program, overflow_checks>>

NextCodec == From \/ Run \/ PerformNextInstr

SpecCodec == InitCodec /\ [][NextCodec]_vars

\* the low 10 bits of w as a number
Low10(w) == w[1] + 256 * (w[2] % 4)

\* the variants in the order of their opcodes
AssignedOpcodes ==
  <<"Halt", "Load", "Add", "Sub", "Mult", "Cmp", "Jmp", "Jz", "Jnz", "Jgt", "Jlt", "Div",
    "Copy", "Inc", "Dec", "LoadMem", "StoreMem">>

VariantOf(opcode) == IF opcode \in 0..16 THEN AssignedOpcodes[opcode + 1] ELSE "Illegal"

\* st holds a word and the instruction it was decoded to
HasDecoded(st) == st.fetched \/ st.res.tag = "Decoded"

\* C21: the codec is total and keyed by the low 10 bits of the word alone:
\* every word, negative ones included, decodes to the variant of its opcode
\* for opcodes 0..16 and to Illegal for every opcode in 17..1023.
C21_CodecKeyedByLow10 ==
  HasDecoded(last) => last.instr.op = VariantOf(Low10(last.word))

\* a negative word with every operand bit set was decoded by its opcode 16
C21_Witness ==
  /\ last.res.tag = "Decoded"
  /\ IsNeg(last.word)
  /\ Low10(last.word) = 16
  /\ last.instr.op = "StoreMem"

\* the register-index fields of each variant as <<offset, width>> within the
\* operand region, from the layout comments of src/instruction.rs
RegFields(op) ==
  CASE op = "Load" -> {<<46, 8>>}
    [] op \in {"Copy", "Cmp"} -> {<<0, 27>>, <<27, 27>>}
    [] op \in {"Add", "Sub", "Mult"} -> {<<0, 18>>, <<18, 18>>, <<36, 18>>}
    [] op = "Div" -> {<<0, 13>>, <<13, 13>>, <<26, 13>>, <<39, 15>>}
    [] op \in {"Jmp", "Jz", "Jnz", "Jgt", "Jlt", "Inc", "Dec"} -> {<<0, 54>>}
    [] op = "LoadMem" -> {<<27, 27>>}
    [] op = "StoreMem" -> {<<0, 27>>}
    [] OTHER -> {}

\* the field f of word w, read at its whole width, is one of 0..4
FieldNamesRegister(w, f) ==
  LET lo == OPCODE_OFFSET + f[1]
  IN  /\ \A k \in 3..(f[2] - 1) : Bit(w, lo + k) = 0
      /\ Bit(w, lo) + 2 * Bit(w, lo + 1) + 4 * Bit(w, lo + 2) <= 4

\* step st ran an instruction one of whose register fields names no register
NamesNoRegister(st) ==
  st.fetched /\ \E f \in RegFields(st.instr.op) : ~FieldNamesRegister(st.word, f)

\* C22: an instruction with a register-index field whose value names no
\* register, values of 256 and more that fit the field included, is decoded
\* and then fails its step with InvalidRegister; it is never executed as if
\* the field named D0..D3 or IP.
C22_WideFieldIsInvalidRegister ==
  NamesNoRegister(last) =>
    last.res.tag = "Err" /\ last.res.err.kind = "InvalidRegister"

\* the unsigned value of the width bits of the operand region of w from
\* offset off upward
FieldValue(w, off, width) ==
  FromBits([i \in 0..63 |-> IF i < width THEN Bit(w, OPCODE_OFFSET + off + i) ELSE 0])

\* C23: the address a LoadMem or StoreMem is decoded with is the unsigned
\* value of its 27-bit address field (bits [0..27) of the operands for
\* LoadMem, bits [27..54) for StoreMem), so never negative, for every word.
C23_AddressIsUnsignedField ==
  HasDecoded(last) =>
    /\ last.instr.op = "LoadMem" => last.instr.src_addr = FieldValue(last.word, 0, 27)
    /\ last.instr.op = "StoreMem" => last.instr.dest_addr = FieldValue(last.word, 27, 27)

\* C24: a word with opcode 1 decodes to a Load whose value is bits [0..46) of
\* the operands as an unsigned number, never sign-extended, and whose
\* dest_reg is bits [46..54); run with dest_reg in 0..3, it sets that
\* register to value.
C24_LoadValueUnsigned ==
  (HasDecoded(last) /\ last.instr.op = "Load") =>
    /\ last.instr.value = FieldValue(last.word, 0, 46)
    /\ ~IsNeg(last.instr.value)
    /\ W(last.instr.dest_reg) = FieldValue(last.word, 46, 8)
    /\ (last.fetched /\ last.instr.dest_reg \in 0..3) =>
         /\ IsOk(last.res)
         /\ RegRead(registers, last.instr.dest_reg).val = last.instr.value

\* a Load whose value has its top bit (bit 55 of the word) set was run and
\* left the value, a positive number, in D0
C24_Witness ==
  /\ last.fetched
  /\ last.instr.op = "Load"
  /\ Bit(last.word, 55) = 1
  /\ last.instr.dest_reg = 0
  /\ registers.data0 = last.instr.value
  /\ ~IsNeg(registers.data0)
  /\ registers.data0 # last.pre.registers.data0


(***************************************************************************)
(* StoreMem and LoadMem, on a memory in which an address with bit 15 set   *)
(* is in range.                                                            *)
(***************************************************************************)
\* the smallest such memory: address 2^15 is its last cell
WideMemWords == 2 ^ 15 + 1

WideMemory == [a \in 1..WideMemWords |-> Zero64]

\* stores and loads of the last cell and of cell 3, and an Inc that changes
\* D0 between a store and a load
MemOpWords ==
  { StoreMem(0, 32768), LoadMem(32768, 1), StoreMem(1, 3), LoadMem(3, 2), Inc(0) }

MemPrograms == [1..2 -> MemOpWords]

MemRegs ==
  { [data0 |-> W(5), data1 |-> WrapNeg(One64), data2 |-> W(3), data3 |-> Zero64,
     instr_pointer |-> Zero64] }

InitMem == BuiltIn(WideMemory, MemPrograms, MemRegs)

SpecMem == InitMem /\ [][Next]_vars

\* the last step was a StoreMem, or a LoadMem, that succeeded
StoreDone == last.fetched /\ last.instr.op = "StoreMem" /\ IsOk(last.res)

LoadDone == last.fetched /\ last.instr.op = "LoadMem" /\ IsOk(last.res)

\* the last step ran a LoadMem word whose address field is in range, the
\* cell of that address holding a value a StoreMem put there, and whose
\* destination is a data register
LoadOfStored ==
  /\ last.fetched
  /\ last.instr.op = "LoadMem"
  /\ last.instr.dest_reg \in 0..3
  /\ InRange(last.pre.memory, FieldValue(last.word, 0, 27))
  /\ ToNat(FieldValue(last.word, 0, 27)) + 1 \in DOMAIN stored

\* C25: a value stored by StoreMem(r -> @a), a any address in range, stays in
\* memory[a] until the next store to a, and a later LoadMem(@a -> d) puts it
\* in registers[d]; the StoreMem changes no register (its source keeps its
\* value) and the LoadMem changes no memory cell.
C25_MemoryRoundTrip ==
  /\ \A a \in DOMAIN stored : memory[a] = stored[a]
  /\ StoreDone =>
       /\ registers = Seen(last)
       /\ memory[ToNat(last.instr.dest_addr) + 1] = RegRead(registers, last.instr.src_reg).val
  /\ LoadDone => memory = last.pre.memory
  /\ LoadOfStored =>
       /\ IsOk(last.res)
       /\ RegRead(registers, last.instr.dest_reg).val
            = stored[ToNat(FieldValue(last.word, 0, 27)) + 1]


(***************************************************************************)
(* RuntimeBuilder::new().with_program(p).build(), call by call.            *)
(***************************************************************************)
BuildWords == {Halt, Load(9, 0), Inc(3)}

\* images of every length up to one word more than the memory holds
BuildPrograms == UNION {[1..n -> BuildWords] : n \in 0..(MemWords + 1)}

\* RuntimeBuilder::new(): default registers and a zeroed memory
InitBuild ==
  /\ overflow_checks \in BOOLEAN
  /\ program \in BuildPrograms
  /\ registers = DefaultRegisters
  /\ memory = NewMemory
  /\ flag_zero = FALSE
  /\ flag_carry = FALSE
  /\ running = FALSE
  /\ pc = "builder"
  /\ ret = NotReturned
  /\ steps = 0
  /\ compared = NotCompared
  /\ stored = NoStores
  /\ calls = <<>>
  /\ Alone
  /\ last = NoStep([registers |-> registers, flag_zero |-> FALSE, flag_carry |-> FALSE,
                    memory |-> memory])

\* builder.with_program(program): the writes, and the panic of expect when
\* one of them fails
WithProgram ==
  /\ pc = "builder"
  /\ \E r \in {with_program_res(memory, program)} :
       /\ memory' = with_program(memory, program)
       /\ last' = Called(Engine, [op |-> "RuntimeBuilder::with_program"], r)
       /\ pc' = IF IsOk(r) THEN "programmed" ELSE "panicked"
  /\ calls' = Append(calls, "with_program")
  /\ UNCHANGED <<registers, flag_zero, flag_carry, running, ret, steps, compared,
                 stored, peer, vm, program, overflow_checks>>

\* builder.build(): the engine takes the builder's registers and memory
Build ==
  /\ pc = "programmed"
  /\ flag_zero' = FALSE
  /\ flag_carry' = FALSE
  /\ running' = FALSE
  /\ pc' = "ready"
  /\ last' = NoStep([registers |-> registers, flag_zero |-> FALSE, flag_carry |-> FALSE,
                     memory |-> memory])
  /\ calls' = Append(calls, "build")
  /\ UNCHANGED <<registers, memory, ret, steps, compared, stored, peer, vm, program,
                 overflow_checks>>

NextBuild == WithProgram \/ Build \/ Run \/ PerformNextInstr

SpecBuild == InitBuild /\ [][NextBuild]_vars

\* C26: with_program called with a program longer than the memory fails by
\* handing an error back to its caller, not by aborting, and no engine
\* holding a truncated program comes of it.
C26_TooLongProgramIsAnError ==
  (last.instr.op = "RuntimeBuilder::with_program" /\ Len(program) > Len(last.pre.memory)) =>
    last.res.tag = "Err" /\ pc # "ready"

\* C27: the engine built by new().with_program(p).build(), len(p) within the
\* memory, starts with D0..D3 and IP zero, both flags and running false,
\* memory[i] = p[i] below len(p) and memory[i] = 0 everywhere else.
C27_BuiltEngineDefaults ==
  (pc = "ready" /\ steps = 0) =>
    /\ Len(program) <= Len(memory)
    /\ registers = DefaultRegisters
    /\ ~flag_zero /\ ~flag_carry /\ ~running
    /\ \A a \in 1..Len(memory) :
         memory[a] = IF a <= Len(program) THEN program[a] ELSE Zero64

\* an engine was built of a two-word program that is not all Halt
C27_Witness ==
  /\ pc = "ready"
  /\ steps = 0
  /\ Len(program) = 2
  /\ memory[2] # Zero64
  /\ memory[3] = Zero64


(***************************************************************************)
(* The Euclid program of tests::euclidean_algorithm_gcd_of_230_449.        *)
(***************************************************************************)
\* the immediates a and b range over 0..GcdMax and 1..GcdMax
GcdMax == 6

\* instructions performed by a run of the Euclid program, at most
GcdSteps == 64

Euclid(a, b) ==
  << Load(b, 1),         \* divisor
     Load(a, 0),         \* dividend
     Load(0, 2),         \* clear remainder location
     Load(0, 3),         \* for zero comparison
     Div(0, 1, 0, 2),    \* perform division
     Copy(1, 0),         \* divisor is the new dividend
     Copy(2, 1),         \* remainder is the new divisor
     Cmp(2, 3),          \* check if remainder is zero
     Load(2, 3),         \* load wanted ip value
     Jnz(3),             \* jump back to step 2 (0-based)
     Halt >>

\* the pair of the test, and every small pair
GcdPairs == {<<449, 230>>} \cup ((0..GcdMax) \X (1..GcdMax))

GcdPrograms == {Euclid(ab[1], ab[2]) : ab \in GcdPairs}

\* a memory the program fills
GcdMemory == [a \in 1..Len(Euclid(0, 1)) |-> Zero64]

InitGcd == BuiltIn(GcdMemory, GcdPrograms, {DefaultRegisters})

\* a turn of the loop, of the first GcdSteps
PerformEuclid == Perform(GcdSteps)

NextGcd == Run \/ PerformEuclid

\* a turn of the loop told by the count of instructions: every PerformEuclid
\* step is one, and one is possible exactly when PerformEuclid is
Turn == pc = "loop" /\ running /\ steps < GcdSteps /\ steps' = steps + 1

\* run is called, and its loop keeps turning while running holds: the engine
\* is synchronous and nothing suspends it
SpecGcd == InitGcd /\ [][NextGcd]_vars /\ WF_vars(Run) /\ WF_steps(Turn)

RECURSIVE GcdOf(_, _)
\* the greatest common divisor of the naturals a and b
GcdOf(a, b) == IF b = 0 THEN a ELSE GcdOf(b, a % b)

\* the immediates of the two first Loads of the image
ImmediateA == ToNat(Decode(program[2]).value)

ImmediateB == ToNat(Decode(program[1]).value)

\* run has returned after a Halt, with the gcd of the immediates in D0
HaltedWithGcd ==
  /\ pc = "returned"
  /\ last.fetched
  /\ last.instr.op = "Halt"
  /\ registers.data0 = W(GcdOf(ImmediateA, ImmediateB))

\* C28: the Euclid program of the GCD test halts in the end for every pair of
\* immediates a >= 0, b > 0 of the set, with D0 = gcd(a, b); for a = 449 and
\* b = 230, with D0 = 1.
C28_EuclidHalts == <>[]HaltedWithGcd

\* the run of the test has halted with 1 in D0, after five divisions
C28_Witness ==
  /\ program = Euclid(449, 230)
  /\ pc = "returned"
  /\ last.instr.op = "Halt"
  /\ registers.data0 = One64
  /\ steps = 43


(***************************************************************************)
(* A step that fails.                                                      *)
(***************************************************************************)
\* step st ran an instruction whose handler returned an error
Failed(st) == st.fetched /\ st.res.tag = "Err"

\* C29: an instruction error ends the loop at once: the failing step leaves
\* run returned, with IP at the failing instruction's address plus one, and
\* after it nothing is fetched or executed, so registers, flags and memory
\* stay as the failing step left them.
C29_ErrorEndsRun ==
  [][/\ Failed(last') =>
          /\ pc' = "returned"
          /\ ~running'
          /\ registers'.instr_pointer = WrapAdd(last'.addr, One64)
     /\ Failed(last) =>
          UNCHANGED <<registers, flag_zero, flag_carry, memory, last, steps>>]_vars

\* a step failed with steps to spare and an instruction other than Halt at
\* the address the IP was left at
C29_Witness ==
  /\ Failed(last)
  /\ pc = "returned"
  /\ steps < MaxSteps
  /\ AddressValid(memory, registers.instr_pointer)
  /\ Decode(memory[ToNat(registers.instr_pointer) + 1]).op = "Inc"

\* C30: a step that fails leaves D0..D3, both flags and every memory cell as
\* they were before it, the IP alone being incremented; a Div whose quot_dest
\* can be written and whose rem_dest cannot writes neither.
C30_FailedStepChangesNothing ==
  Failed(last) =>
    /\ DataRegs(registers) = DataRegs(last.pre.registers)
    /\ flag_zero = last.pre.flag_zero
    /\ flag_carry = last.pre.flag_carry
    /\ memory = last.pre.memory
    /\ registers.instr_pointer = WrapAdd(last.addr, One64)

(***************************************************************************)
(* The engine once it has halted.                                          *)
(***************************************************************************)
\* step st fetched and executed a Halt
Halted(st) == st.fetched /\ st.instr.op = "Halt"

\* C31: the step that executes a Halt sets running to false and changes no
\* data register, no flag and no memory cell; after it, as long as run is not
\* invoked again, registers (the IP included), flags and memory stay as they
\* are.
C31_HaltStopsAndFreezes ==
  [][/\ (Halted(last') /\ steps' # steps) =>
          /\ ~running'
          /\ DataRegs(registers') = DataRegs(registers)
          /\ flag_zero' = flag_zero
          /\ flag_carry' = flag_carry
          /\ memory' = memory
     /\ Halted(last) =>
          UNCHANGED <<registers, flag_zero, flag_carry, memory, running>>]_vars

\* a Halt ended the run with the zero flag a Cmp had set before it still set
C31_Witness ==
  /\ Halted(last)
  /\ pc = "returned"
  /\ ~running
  /\ flag_zero
  /\ compared.done

(***************************************************************************)
(* Two engines side by side.                                               *)
(***************************************************************************)
\* one call of perform_next_instr on the engine e, whatever engine it is: the
\* engine it leaves, the handler's result and the bool it returns
Step(e) ==
  LET f == read_next_inst(e)
      i == Decode(f.val)
      out == Dispatch(consume_next_instr(e), i)
  IN  IF ~IsOk(f) THEN [s |-> e, res |-> f, cont |-> FALSE]
      ELSE [s |-> out.s, res |-> out.res, cont |-> StepReturns(i, out.res)]

\* a step of one Runtime writing its memory into the other Runtime as well
OtherEngine_shares_memory(e, out) == [e EXCEPT !.memory = out.s.memory]

\* what a step with outcome out of one Runtime does to another Runtime e:
\* nothing, each Runtime holding its Registers and Memory by value and
\* perform_next_instr working on &mut self
OtherEngine(e, out) == e

\* the words of the two programs: they write and read memory cell 3
PairWords == {Inc(0), StoreMem(0, 3), LoadMem(3, 1)}

PairPrograms == [1..ProgLen -> PairWords]

\* the register file both engines are given
PairRegs == [DefaultRegisters EXCEPT !.data0 = W(5), !.data1 = WrapNeg(One64)]

\* the second engine as built from program p
BuiltPeer(p) ==
  [registers |-> PairRegs, flag_zero |-> FALSE, flag_carry |-> FALSE,
   memory |-> with_program(NewMemory, p), running |-> FALSE, pc |-> "ready",
   steps |-> 0, twin |-> (p = program)]

\* two engines built each from a program of its own
InitPair ==
  /\ Assembled(NewMemory, PairPrograms, {PairRegs})
  /\ vm = NoVm
  /\ \E p \in PairPrograms : peer = BuiltPeer(p)

\* the fields of the second Runtime the handlers work on
PeerEngine ==
  [registers |-> peer.registers, flag_zero |-> peer.flag_zero,
   flag_carry |-> peer.flag_carry, memory |-> peer.memory]

\* Runtime::run is called on the second engine
PeerRun ==
  /\ peer.pc = "ready"
  /\ peer' = [peer EXCEPT !.running = TRUE, !.pc = "loop"]
  /\ UNCHANGED <<registers, flag_zero, flag_carry, memory, running, pc, ret, last, steps,
                 compared, stored, calls, vm, program, overflow_checks>>

\* one turn of the loop of run of the second engine
PeerPerform ==
  /\ peer.pc = "loop"
  /\ peer.running
  /\ peer.steps < MaxSteps
  /\ \E out \in {Step(PeerEngine)} :
       /\ peer' = [peer EXCEPT
                     !.registers = out.s.registers,
                     !.flag_zero = out.s.flag_zero,
                     !.flag_carry = out.s.flag_carry,
                     !.memory = out.s.memory,
                     !.running = IF out.res.tag = "Panic" THEN @ ELSE out.cont,
                     !.pc = IF out.res.tag = "Panic" THEN "panicked"
                            ELSE IF out.cont THEN "loop" ELSE "returned",
                     !.steps = @ + 1]
       /\ \E e \in {OtherEngine(Engine, out)} :
            /\ registers' = e.registers
            /\ flag_zero' = e.flag_zero
            /\ flag_carry' = e.flag_carry
            /\ memory' = e.memory
  /\ UNCHANGED <<running, pc, ret, last, steps, compared, stored, calls, vm, program,
                 overflow_checks>>

NextPair == Run \/ PerformNextInstr \/ PeerRun \/ PeerPerform

\* the steps of the two engines interleaved in every order
SpecPair == InitPair /\ [][NextPair]_vars

Reg ==
  [Data0 |-> 0, Data1 |-> 1, Data2 |-> 2, Data3 |-> 3, InstPointer |-> 4, Flags |-> 5,
   CodeSegment |-> 6, DataSegment |-> 7, StackSegment |-> 8]

\* enum Flag: the bit of each flag in the Flags register
Flag == [Zero |-> W(1), Carry |-> W(2)]

\* a | b
Or64(a, b) == Not64(And64(Not64(a), Not64(b)))

\* default_reg_values, INITIAL_IP and DEFAULT_CS being 0
default_reg_values(program_size) ==
  <<Zero64, Zero64, Zero64, Zero64, Zero64, Zero64, Zero64, program_size, Zero64>>

\* VM::init_memory: vec![0; size] with the program from DEFAULT_CS upward
init_memory(prog, size) ==
  [a \in 1..size |-> IF a <= Len(prog) THEN prog[a] ELSE Zero64]

\* VM::new_with_memory_size(program, MemWords * 8)
VM_new(prog) ==
  [registers |-> default_reg_values(W(Len(prog))), memory |-> init_memory(prog, MemWords),
   running |-> FALSE, pc |-> "ready", steps |-> 0]

is_reg_writable(index) == index # Reg.Flags

\* self.registers[index as usize]: the value, or the panic of an index past
\* the array
VmReg(v, index) ==
  IF index < Len(v.registers) THEN Ok(v.registers[index + 1])
  ELSE Panic([kind |-> "IndexOutOfBounds", index |-> index])

set_flag_on(v, flag) == [v EXCEPT !.registers[Reg.Flags + 1] = Or64(@, flag)]

set_flag_off(v, flag) == [v EXCEPT !.registers[Reg.Flags + 1] = And64(@, Not64(flag))]

is_flag_on(v, flag) == And64(v.registers[Reg.Flags + 1], flag) # Zero64

\* VM::perform_load
VM_perform_load(v, value, dest_reg) ==
  IF ~is_reg_writable(dest_reg) THEN [s |-> v, res |-> Panic([kind |-> "Todo"])]
  ELSE IF ~IsOk(VmReg(v, dest_reg)) THEN [s |-> v, res |-> VmReg(v, dest_reg)]
  ELSE [s |-> [v EXCEPT !.registers[dest_reg + 1] = value], res |-> Ok(Zero64)]

\* VM::perform_cmp: equal operands set Zero and clear Carry, unequal ones
\* clear Zero; then v1 < v2 sets Carry
VM_perform_cmp(v, src1, src2) ==
  LET r1 == VmReg(v, src1)
      r2 == VmReg(v, src2)
      a == IF r1.val = r2.val THEN set_flag_off(set_flag_on(v, Flag.Zero), Flag.Carry)
           ELSE set_flag_off(v, Flag.Zero)
      b == IF Lt64(r1.val, r2.val) THEN set_flag_on(a, Flag.Carry) ELSE a
  IN  IF ~IsOk(r1) THEN [s |-> v, res |-> r1]
      ELSE IF ~IsOk(r2) THEN [s |-> v, res |-> r2]
      ELSE [s |-> b, res |-> Ok(Zero64)]

\* VM::perform_jmp
VM_perform_jmp(v, src) ==
  LET r == VmReg(v, src)
  IN  IF ~IsOk(r) THEN [s |-> v, res |-> r]
      ELSE [s |-> [v EXCEPT !.registers[Reg.InstPointer + 1] = r.val], res |-> Ok(Zero64)]

\* VM::read_next_inst: self.memory[current_cs + current_ip], the sum and the
\* index being usize
VM_read_next_inst(v) ==
  LET cs == v.registers[Reg.CodeSegment + 1]
      position == WrapAdd(cs, v.registers[Reg.InstPointer + 1])
  IN  IF ULt(position, cs) /\ overflow_checks THEN Panic(ArithmeticOverflow)
      ELSE IF ~ULt(position, W(Len(v.memory)))
      THEN Panic([kind |-> "IndexOutOfBounds", index |-> position])
      ELSE Ok(v.memory[ToNat(position) + 1])

\* VM::fetch_next_instr after its read: registers[InstPointer] += 1
VM_fetch_next_instr(v) == [v EXCEPT !.registers[Reg.InstPointer + 1] = WrapAdd(@, One64)]

\* VM::step for the instructions of the programs below: Halt, Load, Cmp and
\* the jumps, whose handlers return true; an Illegal word panics
VM_step(v) ==
  LET f == VM_read_next_inst(v)
      i == Decode(f.val)
      n == VM_fetch_next_instr(v)
      out == CASE i.op = "Illegal" -> [s |-> n, res |-> Panic([kind |-> "IllegalOpcode"])]
               [] i.op = "Halt" -> [s |-> n, res |-> Ok(Zero64)]
               [] i.op = "Load" -> VM_perform_load(n, i.value, i.dest_reg)
               [] i.op = "Cmp" -> VM_perform_cmp(n, i.src1, i.src2)
               [] i.op = "Jmp" -> VM_perform_jmp(n, i.src)
               [] i.op = "Jz" -> IF is_flag_on(n, Flag.Zero) THEN VM_perform_jmp(n, i.src)
                                 ELSE [s |-> n, res |-> Ok(Zero64)]
               [] i.op = "Jnz" -> IF ~is_flag_on(n, Flag.Zero) THEN VM_perform_jmp(n, i.src)
                                  ELSE [s |-> n, res |-> Ok(Zero64)]
               [] i.op = "Jgt" -> IF ~is_flag_on(n, Flag.Carry) THEN VM_perform_jmp(n, i.src)
                                  ELSE [s |-> n, res |-> Ok(Zero64)]
               [] i.op = "Jlt" -> IF is_flag_on(n, Flag.Carry) THEN VM_perform_jmp(n, i.src)
                                  ELSE [s |-> n, res |-> Ok(Zero64)]
  IN  IF ~IsOk(f) THEN [s |-> v, res |-> f, cont |-> FALSE]
      ELSE [s |-> out.s, res |-> out.res, cont |-> (i.op # "Halt")]

\* the words of the programs both engines are given: a Load that makes D0
\* differ from D1, comparisons either way round, and a jump on each flag
VmWords == {Load(1, 0), Cmp(0, 1), Cmp(1, 0), Cmp(1, 1), Jlt(2), Jz(2)}

VmPrograms == [1..FlagProgLen -> VmWords]

\* a Runtime and a VM built from the same program, registers at their defaults
InitVm ==
  /\ Assembled(NewMemory, VmPrograms, {DefaultRegisters})
  /\ peer = NoPeer
  /\ vm = VM_new(program)

\* VM::run is called
VmRun ==
  /\ vm.pc = "ready"
  /\ vm' = [vm EXCEPT !.running = TRUE, !.pc = "loop"]
  /\ UNCHANGED <<registers, flag_zero, flag_carry, memory, running, pc, ret, last, steps,
                 compared, stored, calls, peer, program, overflow_checks>>

\* one turn of the loop of VM::run: running = step()
VmPerform ==
  /\ vm.pc = "loop"
  /\ vm.running
  /\ vm.steps < MaxSteps
  /\ \E out \in {VM_step(vm)} :
       vm' = [out.s EXCEPT
                !.running = IF out.res.tag = "Panic" THEN @ ELSE out.cont,
                !.pc = IF out.res.tag = "Panic" THEN "panicked"
                       ELSE IF out.cont THEN "loop" ELSE "returned",
                !.steps = @ + 1]
  /\ UNCHANGED <<registers, flag_zero, flag_carry, memory, running, pc, ret, last, steps,
                 compared, stored, calls, peer, program, overflow_checks>>

NextVm == Run \/ PerformNextInstr \/ VmRun \/ VmPerform

\* the same program run by a Runtime and by a VM
SpecVm == InitVm /\ [][NextVm]_vars

\* both engines have executed the same number of instructions, a Cmp among
\* them, and neither has panicked
SameProgress ==
  /\ vm.steps = steps
  /\ compared.done
  /\ pc # "panicked"
  /\ vm.pc # "panicked"

\* C33: the Flags register of vm.rs preserves the behaviour of the two
\* booleans of runtime.rs: after the same Cmp instructions on the same
\* register values the Zero bit equals flag_zero and the Carry bit equals
\* flag_carry, so that a following Jz, Jnz, Jgt or Jlt takes the same branch
\* in both engines.
C33_VmFlagsMatchRuntime ==
  SameProgress =>
    /\ is_flag_on(vm, Flag.Zero) = flag_zero
    /\ is_flag_on(vm, Flag.Carry) = flag_carry

(***************************************************************************)
(* One memory for program and data.                                        *)
(***************************************************************************)
\* the cell of address a in a buffer or in the record of stored values
Cell(a) == ToNat(a) + 1

\* C34: program and data share one memory: a successful StoreMem to address
\* a replaces the word at a, inside the loaded program image as well, and a
\* later step whose IP equals a fetches, decodes and executes the stored
\* value, not the instruction that was loaded there.
C34_StoredWordIsExecuted ==
  [][/\ (steps' = steps + 1 /\ last'.instr.op = "StoreMem" /\ IsOk(last'.res)) =>
          memory'[Cell(last'.instr.dest_addr)]
            = RegRead(Seen(last'), last'.instr.src_reg).val
     /\ (steps' = steps + 1 /\ last'.fetched /\ Cell(last'.addr) \in DOMAIN stored) =>
          /\ last'.word = stored[Cell(last'.addr)]
          /\ last'.instr = Decode(stored[Cell(last'.addr)])
          /\ Engine' = Dispatch(consume_next_instr(Engine),
                                Decode(stored[Cell(last'.addr)])).s]_vars

\* the second word of the program was overwritten by a StoreMem, and the
\* step that fetched it executed the stored word, a Halt, where another
\* instruction had been loaded
C34_Witness ==
  /\ last.fetched
  /\ last.addr = One64
  /\ Cell(last.addr) \in DOMAIN stored
  /\ last.word = stored[Cell(last.addr)]
  /\ last.word # program[Cell(last.addr)]
  /\ last.instr.op = "Halt"
  /\ Decode(program[Cell(last.addr)]).op # "Halt"

(***************************************************************************)
(* The builder's calls in any order.                                       *)
(***************************************************************************)
\* the memories handed to with_memory: one of the default size whose cells
\* the caller has written, and a zeroed one a word longer
GivenMemories ==
  {[a \in 1..MemWords |-> W(7)], [a \in 1..(MemWords + 1) |-> Zero64]}

\* call c has been made on the builder
WasCalled(c) == \E k \in 1..Len(calls) : calls[k] = c

\* builder.with_memory(memory): self.memory = memory
WithMemory ==
  /\ pc \in {"builder", "programmed"}
  /\ ~WasCalled("with_memory")
  /\ memory' \in GivenMemories
  /\ last' = Called(Engine, [op |-> "RuntimeBuilder::with_memory"], Ok(Zero64))
  /\ calls' = Append(calls, "with_memory")
  /\ UNCHANGED <<registers, flag_zero, flag_carry, running, pc, ret, steps, compared,
                 stored, peer, vm, program, overflow_checks>>

\* builder.with_registers(registers): self.registers = registers
WithRegisters ==
  /\ pc \in {"builder", "programmed"}
  /\ ~WasCalled("with_registers")
  /\ registers' \in RegInits
  /\ last' = Called(Engine, [op |-> "RuntimeBuilder::with_registers"], Ok(Zero64))
  /\ calls' = Append(calls, "with_registers")
  /\ UNCHANGED <<flag_zero, flag_carry, memory, running, pc, ret, steps, compared,
                 stored, peer, vm, program, overflow_checks>>

NextOrder == WithMemory \/ WithRegisters \/ WithProgram \/ Build

\* with_memory, with_registers and with_program called on a new builder, each
\* once at most and in any order, and then build
SpecOrder == InitBuild /\ [][NextOrder]_vars

\* the words of the program are in the memory from address 0 upward
HoldsImage ==
  /\ Len(program) <= Len(memory)
  /\ \A k \in 1..Len(program) : memory[k] = program[k]

\* C35: the built engine holds the program image at addresses 0..len
\* whatever the order of the builder calls: with_program before with_memory
\* and with_memory before with_program both give memory[i] = p[i] for
\* 0 <= i < len(p), and with_registers in any position does not alter memory.
C35_ImageWhateverTheOrder ==
  /\ (pc = "ready" /\ WasCalled("with_program")) => HoldsImage
  /\ (pc # "panicked" /\ last.instr.op = "RuntimeBuilder::with_registers") =>
       memory = last.pre.memory

(***************************************************************************)
(* Operands: registers that do not exist, the IP as a source, and          *)
(* destinations that are sources too.                                      *)
(***************************************************************************)
\* the words of the programs: jumps on a register that does not exist after
\* comparisons either way round, instructions that read register 4, and
\* arithmetic whose destination is one of its sources
OperandWords ==
  { Cmp(0, 1), Cmp(1, 0), Jz(7), Jnz(7), Jgt(7), Jlt(7),
    Copy(4, 1), Add(4, 0, 2), Sub(0, 4, 2), Mult(4, 4, 3), Cmp(4, 0), Jmp(4),
    Add(0, 1, 0), Sub(0, 1, 1), Mult(1, 1, 1), Div(0, 1, 0, 2), Div(0, 1, 2, 2) }

OperandPrograms == [1..ProgLen -> OperandWords]

\* the register files: the default one, and one with a dividend and a divisor
OperandRegs ==
  { DefaultRegisters,
    [data0 |-> W(7), data1 |-> W(3), data2 |-> WrapNeg(One64), data3 |-> MaxWord,
     instr_pointer |-> Zero64] }

InitOperand == Built(OperandPrograms, OperandRegs)

SpecOperand == InitOperand /\ [][Next]_vars

\* step st left everything as it was but the IP, which is the address of its
\* instruction plus one
OnlyIpMoved(st) ==
  /\ registers = Seen(st)
  /\ flag_zero = st.pre.flag_zero
  /\ flag_carry = st.pre.flag_carry
  /\ memory = st.pre.memory

\* C36: a conditional jump reads its src register only when its condition
\* holds: not taken, the step succeeds and changes nothing but the
\* fetch-incremented IP for every value of src, indices of no register
\* included; taken with an invalid src, the step fails with InvalidRegister
\* and the IP keeps the fetch-incremented value.
C36_SrcReadOnlyWhenTaken ==
  (last.fetched /\ last.instr.op \in CondJumpOps) =>
    IF ~BranchHolds(last)
    THEN IsOk(last.res) /\ OnlyIpMoved(last)
    ELSE ~IsOk(RegRead(Seen(last), last.instr.src)) =>
           /\ IsInvalidRegister(last.res, last.instr.src)
           /\ OnlyIpMoved(last)

\* after a Cmp that cleared the carry flag, a Jlt naming register 7 was not
\* taken and succeeded
C36_Witness ==
  /\ last.fetched
  /\ last.instr.op = "Jlt"
  /\ last.instr.src = 7
  /\ compared.done
  /\ ~BranchHolds(last)
  /\ IsOk(last.res)
  /\ pc = "loop"

\* C37: a handler that reads register index 4 observes the IP after the
\* fetch increment: for an instruction fetched from address n, Copy(4 -> d)
\* sets registers[d] to n + 1, Cmp, Add, Sub and Mult with a source of 4
\* use n + 1 for it, and Jmp(4) leaves IP = n + 1.
C37_IpSourceIsPostIncrement ==
  (last.fetched /\ IsOk(last.res)) =>
    LET i == last.instr
        next == WrapAdd(last.addr, One64)
        Val(r) == IF r = 4 THEN next ELSE RegRead(last.pre.registers, r).val
    IN  /\ (i.op = "Copy" /\ i.src = 4) => registers[RegName(i.dest)] = next
        /\ (i.op \in {"Add", "Sub", "Mult"} /\ 4 \in {i.src1, i.src2}) =>
             registers[RegName(i.dest)]
               = Wrapped(OperationOf(i.op), Val(i.src1), Val(i.src2))
        /\ (i.op = "Cmp" /\ 4 \in {i.src1, i.src2}) =>
             /\ flag_zero = (Val(i.src1) = Val(i.src2))
             /\ flag_carry = Lt64(Val(i.src1), Val(i.src2))
        /\ (i.op = "Jmp" /\ i.src = 4) => registers.instr_pointer = next

\* a Cmp of register 4 with D0 = 0, fetched from address 0, found them
\* unequal
C37_Witness ==
  /\ last.fetched
  /\ last.instr.op = "Cmp"
  /\ last.instr.src1 = 4
  /\ last.addr = Zero64
  /\ last.pre.registers.data0 = Zero64
  /\ IsOk(last.res)
  /\ ~flag_zero

\* C39: every handler reads all its source registers before it writes a
\* destination, so a destination may be a source as well: Add, Sub and Mult
\* with dest equal to src1 or src2, and Div with quot_dest or rem_dest equal
\* to src1 or src2, compute from the values before the step; when Div's
\* quot_dest equals rem_dest the register ends holding the remainder, the
\* quotient being written first.
C39_SourcesReadBeforeWrites ==
  (last.fetched /\ IsOk(last.res)) =>
    LET i == last.instr
        a == RegRead(Seen(last), i.src1).val
        b == RegRead(Seen(last), i.src2).val
    IN  /\ (i.op \in {"Add", "Sub", "Mult"} /\ i.dest \in {i.src1, i.src2}) =>
             registers[RegName(i.dest)] = Wrapped(OperationOf(i.op), a, b)
        /\ i.op = "Div" =>
             /\ registers[RegName(i.rem_dest)] = Rem64(a, b)
             /\ i.quot_dest # i.rem_dest => registers[RegName(i.quot_dest)] = Quot64(a, b)

\* a Div of D0 = 7 by D1 = 3 put its quotient 2 into D0, its own dividend,
\* and the remainder 1 of 7 by 3 into D2
C39_Witness ==
  /\ last.fetched
  /\ last.instr.op = "Div"
  /\ last.instr.quot_dest = last.instr.src1
  /\ IsOk(last.res)
  /\ last.pre.registers.data0 = W(7)
  /\ registers.data0 = W(2)
  /\ registers.data2 = One64

(***************************************************************************)
(* run invoked again on an engine that has stopped.                        *)
(***************************************************************************)
\* the words of the programs: a Halt to stop at, a jump that fails, and
\* instructions that leave a register, a flag and a memory cell changed
RerunWords == {Halt, Jmp(7), Inc(0), Cmp(0, 1), StoreMem(3, 2)}

RerunPrograms == [1..ProgLen -> RerunWords]

InitRerun == Built(RerunPrograms, RegInits)

\* Runtime::run called again and setting the instruction pointer back to 0
RunAgain_from_zero ==
  /\ pc = "returned"
  /\ running' = TRUE
  /\ pc' = "loop"
  /\ ret' = NotReturned
  /\ registers' = [registers EXCEPT !.instr_pointer = Zero64]
  /\ UNCHANGED <<flag_zero, flag_carry, memory, last, steps, compared, stored,
                 calls, peer, vm, program, overflow_checks>>

\* Runtime::run called on an engine whose earlier run has returned:
\* running = true, and the loop is entered
RunAgain ==
  /\ pc = "returned"
  /\ running' = TRUE
  /\ pc' = "loop"
  /\ ret' = NotReturned
  /\ UNCHANGED <<registers, flag_zero, flag_carry, memory, last, steps, compared, stored,
                 calls, peer, vm, program, overflow_checks>>

NextRerun == Run \/ PerformNextInstr \/ RunAgain

\* the engine run, and run again each time it has stopped
SpecRerun == InitRerun /\ [][NextRerun]_vars

\* C38: run invoked again on an engine that has stopped, after a Halt or
\* after a failed instruction, resets nothing: it sets running to true, the
\* registers, flags and memory are those the previous run left, and the next
\* fetch is at the current IP, one past the Halt or the failing instruction.
C38_RerunResumes ==
  [][/\ (pc = "returned" /\ pc' = "loop") =>
          /\ running'
          /\ registers' = registers
          /\ flag_zero' = flag_zero
          /\ flag_carry' = flag_carry
          /\ memory' = memory
          /\ registers'.instr_pointer = WrapAdd(last.addr, One64)
     /\ (steps' = steps + 1 /\ ~last.cont /\ steps > 0) =>
          /\ last'.addr = WrapAdd(last.addr, One64)
          /\ last'.pre = Engine]_vars

\* a Halt at address 0 ended the first run, and the run after it executed
\* the Inc at address 1 on the registers the first run had left
C38_Witness ==
  /\ Decode(program[1]).op = "Halt"
  /\ last.fetched
  /\ last.addr = One64
  /\ last.instr.op = "Inc"
  /\ IsOk(last.res)
  /\ steps = 2
  /\ pc = "loop"

====
